---- MODULE Spec2Model ----
(***************************************************************************)
(* Model of the application orchestration of the LinkedIn automation tool: *)
(* the two entry points (LinkedInAutomationController.run_daily_automation *)
(* and main()), the ledger (ApplicationTracker on applications.csv), the   *)
(* quota count (calculate_applications_today) and the submission state     *)
(* machine (LinkedInApplicationBot.apply_to_job).                          *)
(*                                                                         *)
(* Scores are held in thousandths (the code rounds every score to three    *)
(* decimals), so 0.6 is 600 and 1.0 is 1000.  The ledger file is the one   *)
(* file data/applications.csv: the program is started from the repository  *)
(* root, where the tracker's relative path and the absolute path of the    *)
(* quota count name the same file.  The date does not change in a run.     *)
(***************************************************************************)
EXTENDS Integers, Sequences, FiniteSets, TLC

(* ------------------------------ bounds --------------------------------- *)
MaxJobs == 2
MaxLimit == 2
MaxLedger0 == 1
MaxKeywords == 2

(* ------------------------- program constants --------------------------- *)
max_steps == 5
similarity_threshold == 600
CtlPriorityThreshold == 600
MainPriorityThreshold == 100

LimitSet == (-1)..MaxLimit
StatusSet == {"Applied", "Failed", "Error"}

(* What the description of a posting holds: the similarity to the resume,  *)
(* the number of known skills, the experience level its wording indicates  *)
(* and the number of culture keywords.  desc tells a description with text *)
(* from an empty string, a missing value (None) and a NaN.                 *)
PostingKinds ==
  { [sim |-> 300, nskills |-> 0, level |-> "entry",  ncult |-> 0, desc |-> "text"],
    [sim |-> 700, nskills |-> 0, level |-> "senior", ncult |-> 0, desc |-> "text"],
    [sim |-> 650, nskills |-> 5, level |-> "entry",  ncult |-> 1, desc |-> "text"] }

Min(a, b) == IF a <= b THEN a ELSE b
Max(a, b) == IF a >= b THEN a ELSE b

(* ------------------------------ FitScorer ------------------------------ *)
(* Mutation of CalculatePriorityScore: the sum is returned unclamped.       *)
CalculatePriorityScoreNoClamp(nskills, level, ncult, sim) ==
  sim + Min(nskills * 20, 200) + (IF level \in {"entry", "mid"} THEN 100 ELSE 50) + ncult * 10

(* Mutation of CalculatePriorityScore: a sum above 1.0 wraps around.        *)
CalculatePriorityScoreWrap(nskills, level, ncult, sim) ==
  (sim + Min(nskills * 20, 200) + (IF level \in {"entry", "mid"} THEN 100 ELSE 50) + ncult * 10) % 1000

(* calculate_priority_score: min(round(sum, 3), 1.0).                      *)
CalculatePriorityScore(nskills, level, ncult, sim) ==
  LET skill_boost == Min(nskills * 20, 200)
      experience_boost == IF level \in {"entry", "mid"} THEN 100 ELSE 50
      culture_boost == ncult * 10
  IN  Min(sim + skill_boost + experience_boost + culture_boost, 1000)

(* Mutation of ShouldApply: a score equal to the threshold does not pass.  *)
ShouldApplyStrict(sim) == sim > similarity_threshold

ShouldApply(sim) == sim >= similarity_threshold

(* Mutation of ExtractJobRequirements: no early return for a description   *)
(* without text, so that the default of extract_experience_level applies.  *)
ExtractJobRequirementsNoGuard(job) ==
  IF job.desc # "text"
  THEN [ nskills |-> 0, experience_level |-> "entry", ncult |-> 0 ]
  ELSE [ nskills |-> Min(job.nskills, 15), experience_level |-> job.level, ncult |-> job.ncult ]

(* extract_job_requirements: the early return for a description that is    *)
(* empty, None or NaN has no culture_keywords; at most 15 skills are kept. *)
ExtractJobRequirements(job) ==
  IF job.desc # "text"
  THEN [ nskills |-> 0, experience_level |-> "unknown", ncult |-> 0 ]
  ELSE [ nskills |-> Min(job.nskills, 15), experience_level |-> job.level, ncult |-> job.ncult ]

(* calculate_resume_job_similarity: clean_text gives "" for a description   *)
(* without text, whose cosine similarity to the resume is 0.0.             *)
CalculateResumeJobSimilarity(job) == IF job.desc # "text" THEN 0 ELSE job.sim

AnalyzeApplicationFit(job) ==
  LET requirements == ExtractJobRequirements(job)
      similarity_score == CalculateResumeJobSimilarity(job)
  IN  [ url |-> job.url,
        similarity_score |-> similarity_score,
        priority_score |-> CalculatePriorityScore(requirements.nskills,
                             requirements.experience_level, requirements.ncult, similarity_score),
        requirements |-> requirements,
        should_apply |-> ShouldApply(similarity_score) ]

(* list.sort(key=priority_score, reverse=True): stable, descending.        *)
(* Mutation of InsertDesc: a later posting goes before an equal earlier one. *)
RECURSIVE InsertDescUnstable(_, _)
InsertDescUnstable(s, x) ==
  IF s = << >> THEN << x >>
  ELSE IF Head(s).priority_score > x.priority_score
       THEN << Head(s) >> \o InsertDescUnstable(Tail(s), x)
       ELSE << x >> \o s

RECURSIVE InsertDesc(_, _)
InsertDesc(s, x) ==
  IF s = << >> THEN << x >>
  ELSE IF Head(s).priority_score >= x.priority_score
       THEN << Head(s) >> \o InsertDesc(Tail(s), x)
       ELSE << x >> \o s

RECURSIVE SortByPriority(_)
SortByPriority(s) ==
  IF s = << >> THEN << >>
  ELSE InsertDesc(SortByPriority(SubSeq(s, 1, Len(s) - 1)), s[Len(s)])

(* Mutation of PySlice: the list is not cut.                               *)
PySliceNoCut(s, r) == s

(* Python's s[:r]: a negative r counts from the end of the list.           *)
PySlice(s, r) ==
  IF r >= 0 THEN SubSeq(s, 1, Min(r, Len(s)))
  ELSE SubSeq(s, 1, Max(Len(s) + r, 0))

(* ------------------------------- ledger -------------------------------- *)
(* Mutation of CalculateApplicationsToday: only Applied rows are counted.  *)
CalculateApplicationsTodayApplied(readable, exists, rows) ==
  IF ~exists \/ ~readable THEN 0
  ELSE Cardinality({k \in DOMAIN rows : rows[k].today /\ rows[k].status = "Applied"})

CalculateApplicationsToday(readable, exists, rows) ==
  IF ~exists \/ ~readable THEN 0
  ELSE Cardinality({k \in DOMAIN rows : rows[k].today})

(* Mutation of CheckAlreadyApplied: the ledger is never consulted.         *)
CheckAlreadyAppliedNever(readable, exists, rows, url) == FALSE

CheckAlreadyApplied(readable, exists, rows, url) ==
  exists /\ readable /\ \E k \in DOMAIN rows : rows[k].url = url

(* log_application: read_csv, concat of the new row, to_csv; an exception  *)
(* of read_csv is printed and nothing is written.  A job_url is a          *)
(* non-empty string, which to_csv and read_csv give back unchanged.        *)
LogApplication(readable, exists, rows, url, status) ==
  IF exists /\ readable THEN Append(rows, [url |-> url, status |-> status, today |-> TRUE])
  ELSE rows

(* Rows a ledger may hold when a run starts: URL 1 is a posting that can be  *)
(* discovered again, URL 0 one that is not.                                *)
LedgerRows0 == [url : {0, 1}, status : {"Applied", "Failed"}, today : BOOLEAN]

RECURSIVE SeqsUpTo(_, _)
SeqsUpTo(S, n) ==
  IF n = 0 THEN { << >> }
  ELSE LET shorter == SeqsUpTo(S, n - 1)
       IN  shorter \cup { Append(s, x) : s \in shorter, x \in S }

(* A discovery result: postings with distinct URLs 1..n in discovery order *)
(* (remove_duplicates keeps one posting per job_url).                      *)
Discoveries ==
  UNION { { [k \in 1..n |-> [url |-> k, sim |-> f[k].sim, nskills |-> f[k].nskills,
                             level |-> f[k].level, ncult |-> f[k].ncult, desc |-> f[k].desc]]
            : f \in [1..n -> PostingKinds] } : n \in 0..MaxJobs }

(* settings.py: DEFAULT_KEYWORDS is os.getenv('DEFAULT_KEYWORDS', '')      *)
(* split at the commas: one field (0, the empty string) when the variable  *)
(* is unset or empty, else the keywords 1..n.                              *)
KeywordSettings ==
  { << 0 >> } \cup { [k \in 1..n |-> k] : n \in 1..MaxKeywords }

(* job_search_config['keywords']: the fields that are not blank.           *)
JobSearchKeywords(default_keywords) ==
  SelectSeq(default_keywords, LAMBDA kw : kw # 0)

(* job_search_config['locations']: the single DEFAULT_LOCATION.            *)
JobSearchLocations == << 1 >>

(* search_all_combinations: the (keyword, location) pairs in the order of  *)
(* its nested loops.                                                       *)
SearchPairs(keywords, locations) ==
  [ n \in 1..(Len(keywords) * Len(locations)) |->
      [ keyword  |-> keywords[((n - 1) \div Len(locations)) + 1],
        location |-> locations[((n - 1) % Len(locations)) + 1] ] ]

(* remove_duplicates: the first posting of every job_url is kept.          *)
(* Mutation of RemoveDuplicates: every posting is kept.                    *)
RemoveDuplicatesKeepsAll(jobs) == jobs

RECURSIVE RemoveDuplicates(_)
RemoveDuplicates(jobs) ==
  IF jobs = << >> THEN << >>
  ELSE LET front == RemoveDuplicates(SubSeq(jobs, 1, Len(jobs) - 1))
           last  == jobs[Len(jobs)]
       IN  IF \E k \in DOMAIN front : front[k].url = last.url
           THEN front
           ELSE Append(front, last)

(* ------------------------------- state --------------------------------- *)
VARIABLES
  entry,          \* "controller" (run_daily_automation) or "main" (main())
  pc,             \* position of the run
  maxPerDay,      \* config.MAX_APPLICATIONS_PER_DAY
  ledgerExists,   \* applications.csv exists
  ledgerReadable, \* pandas.read_csv parses applications.csv (it raises when FALSE)
  ledger,         \* rows of applications.csv
  ledger0,        \* rows of applications.csv when the run started
  remaining,      \* main(): remaining_applications
  feed,           \* the postings the platform returns to search_all_combinations
  DEFAULT_KEYWORDS, \* config.DEFAULT_KEYWORDS
  credentials,    \* LINKEDIN_EMAIL and LINKEDIN_PASSWORD are both set
  spc,            \* position inside search_all_combinations: "loop" or "pause"
  queries,        \* the (keyword, location) pairs passed to scrape_jobs_batch
  answer,         \* what scrape_jobs did for the query of this iteration
  all_jobs,       \* search_all_combinations: postings collected so far
  pauses,         \* search_stats['total_searches']: pacing delays slept
  discovered,     \* discovered_jobs
  j,              \* analysis loop: postings already iterated
  analyses,       \* the analysis results of the filtering loop, in order
  qualified,      \* qualified_jobs
  handed,         \* TRUE once qualified_jobs is handed to the application phase
  i,              \* application loop: enumerate index of the current job
  is_running,     \* controller.is_running
  stats,          \* controller.session_stats
  results,        \* local counters of _execute_applications / main
  is_logged_in,   \* bot.is_logged_in
  botCreated,     \* automation_bot is bound to a LinkedInApplicationBot
  driver,         \* bot.driver: "none" or "open" (never reset by close_browser)
  quitCalls,      \* number of driver.quit calls
  botStats,       \* bot.session_stats
  bpc,            \* position inside apply_to_job
  current_step,   \* _process_application_forms: current_step
  pageDone,       \* a completion indicator is present on the page
  clicks,         \* proceed controls clicked in the current attempt
  fills,          \* _fill_current_form_step calls of the current attempt
  excAt,          \* driver exception in the current attempt: none/helper/handler
  applyResult,    \* value returned by apply_to_job
  outcome,        \* per attempted job: "Complete", "Abandoned", "Exception"
  runRecords,     \* records appended by this run: [job, status]
  delays,         \* inter-application delays slept
  sigAt,          \* when the first shutdown signal / interrupt arrived (at: position in apply_to_job)
  report          \* the session report of run_daily_automation

vars == << entry, pc, maxPerDay, ledgerExists, ledgerReadable, ledger, ledger0, remaining,
           is_logged_in, feed, analyses,
           DEFAULT_KEYWORDS, credentials, spc, queries, answer, all_jobs, pauses,
           discovered, j, qualified, handed, i, is_running, stats, results,
           botCreated, driver, quitCalls, botStats, bpc, current_step, pageDone,
           clicks, fills, excAt, applyResult, outcome, runRecords, delays, sigAt, report >>

cfgVars == << entry, maxPerDay, ledger0, ledgerReadable, feed, DEFAULT_KEYWORDS, credentials >>
searchVars == << spc, queries, answer, all_jobs, pauses >>
ledgerVars == << ledgerExists, ledger, runRecords >>
botVars == << botStats, bpc, current_step, pageDone, clicks, fills, excAt, applyResult >>
sessVars == << botCreated, driver, quitCalls >>
scoreVars == << discovered, j, qualified, handed, remaining, analyses >>
loopVars == << i, results, delays >>

NoReport ==
  [ made |-> FALSE, success |-> FALSE, reason |-> "none",
    attempted |-> 0, successful |-> 0, errors |-> 0,
    has_results |-> FALSE, total_attempted |-> 0, success_rate |-> 0, keys |-> {} ]

NoSignal == [ phase |-> "none", k |-> 0, at |-> "idle" ]

(* Everything but the ledger file when a run starts.  The platform has     *)
(* nothing to return when no query is going to be made.                    *)
InitRun ==
  /\ entry \in {"controller", "main"}
  /\ pc = "start"
  /\ maxPerDay \in LimitSet
  /\ DEFAULT_KEYWORDS \in KeywordSettings
  /\ (JobSearchKeywords(DEFAULT_KEYWORDS) = << >> => feed = << >>)
  /\ credentials \in BOOLEAN
  /\ spc = "loop"
  /\ queries = << >>
  /\ answer = "none"
  /\ all_jobs = << >>
  /\ pauses = 0
  /\ ledger0 = ledger
  /\ is_logged_in = FALSE
  /\ remaining = 0
  /\ discovered = << >>
  /\ j = 0
  /\ qualified = << >>
  /\ analyses = << >>
  /\ handed = FALSE
  /\ i = 0
  /\ is_running = FALSE
  /\ stats = [ jobs_discovered |-> 0, jobs_analyzed |-> 0, applications_attempted |-> 0,
               applications_successful |-> 0, errors_encountered |-> 0 ]
  /\ results = [ successful |-> 0, failed |-> 0 ]
  /\ botCreated = FALSE
  /\ driver = "none"
  /\ quitCalls = 0
  /\ botStats = [ applications_attempted |-> 0, applications_successful |-> 0,
                  applications_failed |-> 0, login_attempts |-> 0 ]
  /\ bpc = "idle"
  /\ current_step = 0
  /\ pageDone = FALSE
  /\ clicks = 0
  /\ fills = 0
  /\ excAt = "none"
  /\ applyResult = "none"
  /\ outcome = << >>
  /\ runRecords = << >>
  /\ delays = 0
  /\ sigAt = NoSignal
  /\ report = NoReport

(* The ledger file is absent, or holds the header and well-formed rows.    *)
Init ==
  /\ ledgerExists \in BOOLEAN
  /\ ledgerReadable = TRUE
  /\ ledger \in SeqsUpTo(LedgerRows0, MaxLedger0)
  /\ (~ledgerExists => ledger = << >>)
  /\ feed \in Discoveries
  /\ InitRun

(* --------------------------- shared operators -------------------------- *)
(* The keys of self.session_stats.                                         *)
SessionStatsKeys ==
  { "session_start", "jobs_discovered", "jobs_analyzed", "applications_attempted",
    "applications_successful", "errors_encountered" }

(* The keys of the report dictionary and of its 'statistics' entry.        *)
ReportKeys(has_results) ==
  { "session_success", "session_duration_minutes", "timestamp", "reason", "statistics" }
    \cup SessionStatsKeys
    \cup (IF has_results THEN { "application_results" } ELSE {})

(* (successful / max(1, n)) * 100 of _execute_applications, in whole       *)
(* percent.                                                                *)
SuccessRate(successful, n) == (successful * 100) \div Max(1, n)

GenerateSessionReport(success, reason, has_results) ==
  [ made |-> TRUE, success |-> success, reason |-> reason,
    attempted |-> stats.applications_attempted,
    successful |-> stats.applications_successful,
    errors |-> stats.errors_encountered,
    has_results |-> has_results,
    total_attempted |-> IF has_results THEN Len(qualified) ELSE 0,
    success_rate |-> IF has_results THEN SuccessRate(results.successful, Len(qualified)) ELSE 0,
    keys |-> ReportKeys(has_results) ]

ReportWithErrors(success, reason, nerr) ==
  [ GenerateSessionReport(success, reason, FALSE)
      EXCEPT !.errors = stats.errors_encountered + nerr ]

(* One iteration of the filtering loop over discovered_jobs.               *)
(* Mutation of QualifiedAfter: should_apply is not consulted.              *)
QualifiedAfterIgnoringFit(q, job, threshold) ==
  LET analysis == AnalyzeApplicationFit(job)
  IN  IF CheckAlreadyApplied(ledgerReadable, ledgerExists, ledger, job.url) THEN q
      ELSE IF analysis.priority_score > threshold
           THEN Append(q, analysis)
           ELSE q

QualifiedAfter(q, job, threshold) ==
  LET analysis == AnalyzeApplicationFit(job)
  IN  IF CheckAlreadyApplied(ledgerReadable, ledgerExists, ledger, job.url) THEN q
      ELSE IF analysis.should_apply /\ analysis.priority_score > threshold
           THEN Append(q, analysis)
           ELSE q

(* The results of analyze_application_fit so far: a posting the ledger     *)
(* holds is skipped before it is analysed.                                 *)
AnalysesAfter(done, job) ==
  IF CheckAlreadyApplied(ledgerReadable, ledgerExists, ledger, job.url) THEN done
  ELSE Append(done, AnalyzeApplicationFit(job))

(* Sort by priority and cut to the remaining daily applications.           *)
SortAndLimit(q, rem) == PySlice(SortByPriority(q), rem)

(* The daily-limit test of both entry points.                              *)
(* Mutation of LimitReached: a count equal to the limit passes.            *)
LimitReachedOffByOne(today_count, limit) == today_count > limit

LimitReached(today_count, limit) == today_count >= limit

(* ------------------------ configuration loading ------------------------ *)
(* config = Config() runs when settings.py is imported, by both entry      *)
(* points: load_config raises ValueError when a credential is missing, so  *)
(* the program ends before run_daily_automation or main() is entered.      *)
LoadConfigRaises ==
  /\ pc = "start"
  /\ ~credentials
  /\ pc' = "crashed"
  /\ UNCHANGED << cfgVars, searchVars, is_logged_in, ledgerVars, botVars, sessVars, scoreVars,
                  loopVars, outcome, is_running, stats, sigAt, report >>

(* --------------- LinkedInJobScraper.search_all_combinations ------------ *)
InDiscovery == pc \in {"ctl_discover", "m_discover"}

(* One iteration up to the pacing delay: scrape_jobs_batch for the next    *)
(* pair.  scrape_jobs raises (caught there), returns nothing, or returns a *)
(* batch, which is appended whole since every filter of                    *)
(* filter_jobs_by_criteria is commented out.  feed is everything the       *)
(* platform returns over the queries of the run.                           *)
(* Mutation of ScraperQuery: a query that raises ends the search.          *)
ScraperQueryRaiseAborts ==
  /\ InDiscovery /\ spc = "loop"
  /\ LET pairs == SearchPairs(JobSearchKeywords(DEFAULT_KEYWORDS), JobSearchLocations)
         left  == Len(feed) - Len(all_jobs)
     IN  /\ pauses < Len(pairs)
         /\ queries' = Append(queries, pairs[pauses + 1])
         /\ \E ans \in {"raised", "empty", "batch"}, n \in 0..left :
              /\ (ans = "batch") = (n > 0)
              /\ (pauses + 1 = Len(pairs) => n = left)
              /\ answer' = ans
              /\ all_jobs' = all_jobs \o SubSeq(feed, Len(all_jobs) + 1, Len(all_jobs) + n)
              /\ pauses' = IF ans = "raised" THEN Len(pairs) - 1 ELSE pauses
  /\ spc' = "pause"
  /\ UNCHANGED << cfgVars, pc, is_logged_in, ledgerVars, botVars, sessVars, scoreVars,
                  loopVars, outcome, is_running, stats, sigAt, report >>

ScraperQuery ==
  /\ InDiscovery /\ spc = "loop"
  /\ LET pairs == SearchPairs(JobSearchKeywords(DEFAULT_KEYWORDS), JobSearchLocations)
         left  == Len(feed) - Len(all_jobs)
     IN  /\ pauses < Len(pairs)
         /\ queries' = Append(queries, pairs[pauses + 1])
         /\ \E ans \in {"raised", "empty", "batch"}, n \in 0..left :
              /\ (ans = "batch") = (n > 0)
              /\ (pauses + 1 = Len(pairs) => n = left)
              /\ answer' = ans
              /\ all_jobs' = all_jobs \o SubSeq(feed, Len(all_jobs) + 1, Len(all_jobs) + n)
  /\ spc' = "pause"
  /\ UNCHANGED << cfgVars, pc, pauses, is_logged_in, ledgerVars, botVars, sessVars, scoreVars,
                  loopVars, outcome, is_running, stats, sigAt, report >>

(* The rest of the iteration: human_delay(3, 7), then total_searches += 1. *)
ScraperPause ==
  /\ InDiscovery /\ spc = "pause"
  /\ pauses' = pauses + 1
  /\ answer' = "none"
  /\ spc' = "loop"
  /\ UNCHANGED << cfgVars, pc, queries, all_jobs, is_logged_in, ledgerVars, botVars, sessVars,
                  scoreVars, loopVars, outcome, is_running, stats, sigAt, report >>

(* The loops are over: search_all_combinations returns the collected       *)
(* postings without their duplicates.                                      *)
SearchReturns ==
  /\ spc = "loop"
  /\ pauses >= Len(SearchPairs(JobSearchKeywords(DEFAULT_KEYWORDS), JobSearchLocations))

(* ------------------- controller: run_daily_automation ------------------ *)
CtlStart ==
  /\ entry = "controller" /\ pc = "start"
  /\ credentials
  /\ is_running' = TRUE
  /\ pc' = "ctl_preflight"
  /\ UNCHANGED << cfgVars, searchVars, is_logged_in, ledgerVars, botVars, sessVars, scoreVars, loopVars, outcome,
                  stats, sigAt, report >>

(* _perform_preflight_checks: the daily limit, the keyword list, the       *)
(* credentials, the connectivity.  DEFAULT_KEYWORDS is the result of       *)
(* str.split(','), a list that is never empty, and Config() has raised     *)
(* when a credential is missing.                                           *)
CtlPreflight ==
  /\ pc = "ctl_preflight"
  /\ \E connected \in BOOLEAN :
       IF LimitReached(CalculateApplicationsToday(ledgerReadable, ledgerExists, ledger), maxPerDay)
          \/ DEFAULT_KEYWORDS = << >>
          \/ ~credentials
          \/ ~connected
       THEN /\ report' = GenerateSessionReport(FALSE, "Pre-flight checks failed", FALSE)
            /\ pc' = "ctl_cleanup"
       ELSE /\ pc' = "ctl_init"
            /\ UNCHANGED report
  /\ UNCHANGED << cfgVars, searchVars, is_logged_in, ledgerVars, botVars, sessVars, scoreVars, loopVars, outcome,
                  is_running, stats, sigAt >>

(* initialize_components: scraper, tailor, tracker (ensure_csv_exists),    *)
(* bot, in that order; any constructor may raise.                          *)
CtlInitComponents ==
  /\ pc = "ctl_init"
  /\ \E res \in {"ok", "fail_before_tracker", "fail_at_bot"} :
       /\ ledgerExists' = IF res = "fail_before_tracker" THEN ledgerExists ELSE TRUE
       /\ botCreated' = (res = "ok")
       /\ IF res = "ok"
          THEN pc' = "ctl_discover" /\ UNCHANGED report
          ELSE /\ report' = GenerateSessionReport(FALSE, "Component initialization failed", FALSE)
               /\ pc' = "ctl_cleanup"
  /\ UNCHANGED << cfgVars, searchVars, is_logged_in, ledger, runRecords, botVars, driver, quitCalls, scoreVars,
                  loopVars, outcome, is_running, stats, sigAt >>

(* _execute_job_discovery: search_all_combinations returns its postings.   *)
CtlDiscover ==
  /\ pc = "ctl_discover"
  /\ SearchReturns
  /\ LET d == RemoveDuplicates(all_jobs) IN
       /\ discovered' = d
       /\ stats' = [stats EXCEPT !.jobs_discovered = Len(d)]
       /\ IF d = << >>
          THEN /\ report' = GenerateSessionReport(TRUE, "No jobs found matching criteria", FALSE)
               /\ pc' = "ctl_cleanup"
          ELSE pc' = "ctl_analyze" /\ UNCHANGED report
  /\ UNCHANGED << cfgVars, searchVars, is_logged_in, ledgerVars, botVars, sessVars, j, qualified, handed, remaining, analyses,
                  loopVars, outcome, is_running, sigAt >>

(* _execute_job_discovery raises: counted there, counted again by the      *)
(* handler of run_daily_automation.                                        *)
CtlDiscoverRaises ==
  /\ pc = "ctl_discover"
  /\ stats' = [stats EXCEPT !.errors_encountered = @ + 2]
  /\ report' = ReportWithErrors(FALSE, "Unexpected error", 2)
  /\ pc' = "ctl_cleanup"
  /\ UNCHANGED << cfgVars, searchVars, is_logged_in, ledgerVars, botVars, sessVars, scoreVars, loopVars, outcome,
                  is_running, sigAt >>

(* _analyze_and_filter_jobs: one loop iteration, or the loop exit with the *)
(* sort, the quota cut and the caller's emptiness test.                    *)
CtlAnalyzeStep ==
  /\ pc = "ctl_analyze"
  /\ IF j < Len(discovered) /\ is_running
     THEN /\ j' = j + 1
          /\ qualified' = QualifiedAfter(qualified, discovered[j + 1], CtlPriorityThreshold)
          /\ analyses' = AnalysesAfter(analyses, discovered[j + 1])
          /\ stats' = IF CheckAlreadyApplied(ledgerReadable, ledgerExists, ledger, discovered[j + 1].url)
                      THEN stats
                      ELSE [stats EXCEPT !.jobs_analyzed = @ + 1]
          /\ UNCHANGED << pc, handed, report >>
     ELSE LET q == SortAndLimit(qualified,
                      maxPerDay - CalculateApplicationsToday(ledgerReadable, ledgerExists, ledger))
          IN  /\ qualified' = q
              /\ IF q = << >>
                 THEN /\ report' = GenerateSessionReport(TRUE, "No qualified jobs after analysis", FALSE)
                      /\ pc' = "ctl_cleanup"
                      /\ UNCHANGED handed
                 ELSE /\ handed' = TRUE
                      /\ pc' = "ctl_browser"
                      /\ UNCHANGED report
              /\ UNCHANGED << j, stats, analyses >>
  /\ UNCHANGED << cfgVars, searchVars, is_logged_in, ledgerVars, botVars, sessVars, discovered, remaining,
                  loopVars, outcome, is_running, sigAt >>

(* _execute_applications: initialize_browser; a failure raises, is counted *)
(* by _execute_applications and again by run_daily_automation.             *)
(* Mutation of CtlInitBrowser: a failed browser start goes on to the login. *)
CtlInitBrowserNotFatal ==
  /\ pc = "ctl_browser"
  /\ \E ok \in BOOLEAN :
       IF ok
       THEN /\ driver' = "open"
            /\ pc' = "ctl_login"
            /\ UNCHANGED << stats, report >>
       ELSE /\ stats' = [stats EXCEPT !.errors_encountered = @ + 2]
            /\ report' = ReportWithErrors(FALSE, "Unexpected error", 2)
            /\ pc' = "ctl_login"
            /\ UNCHANGED driver
  /\ UNCHANGED << cfgVars, searchVars, is_logged_in, ledgerVars, botVars, botCreated, quitCalls, scoreVars,
                  loopVars, outcome, is_running, sigAt >>

CtlInitBrowser ==
  /\ pc = "ctl_browser"
  /\ \E ok \in BOOLEAN :
       IF ok
       THEN /\ driver' = "open"
            /\ pc' = "ctl_login"
            /\ UNCHANGED << stats, report >>
       ELSE /\ stats' = [stats EXCEPT !.errors_encountered = @ + 2]
            /\ report' = ReportWithErrors(FALSE, "Unexpected error", 2)
            /\ pc' = "ctl_cleanup"
            /\ UNCHANGED driver
  /\ UNCHANGED << cfgVars, searchVars, is_logged_in, ledgerVars, botVars, botCreated, quitCalls, scoreVars,
                  loopVars, outcome, is_running, sigAt >>

(* login_to_linkedin; a failure raises out of _execute_applications.      *)
(* Mutation of CtlLogin: a failed login goes on to the application loop.   *)
CtlLoginNotFatal ==
  /\ pc = "ctl_login"
  /\ botStats' = [botStats EXCEPT !.login_attempts = @ + 1]
  /\ \E ok \in BOOLEAN :
       IF ok
       THEN /\ pc' = "ctl_loop"
            /\ is_logged_in' = TRUE
            /\ UNCHANGED << stats, report >>
       ELSE /\ stats' = [stats EXCEPT !.errors_encountered = @ + 2]
            /\ report' = ReportWithErrors(FALSE, "Unexpected error", 2)
            /\ pc' = "ctl_loop"
            /\ UNCHANGED is_logged_in
  /\ UNCHANGED << cfgVars, searchVars, ledgerVars, bpc, current_step, pageDone, clicks, fills, excAt,
                  applyResult, sessVars, scoreVars, loopVars, outcome, is_running, sigAt >>

CtlLogin ==
  /\ pc = "ctl_login"
  /\ botStats' = [botStats EXCEPT !.login_attempts = @ + 1]
  /\ \E ok \in BOOLEAN :
       IF ok
       THEN /\ pc' = "ctl_loop"
            /\ is_logged_in' = TRUE
            /\ UNCHANGED << stats, report >>
       ELSE /\ stats' = [stats EXCEPT !.errors_encountered = @ + 2]
            /\ report' = ReportWithErrors(FALSE, "Unexpected error", 2)
            /\ pc' = "ctl_cleanup"
            /\ UNCHANGED is_logged_in
  /\ UNCHANGED << cfgVars, searchVars, ledgerVars, bpc, current_step, pageDone, clicks, fills, excAt,
                  applyResult, sessVars, scoreVars, loopVars, outcome, is_running, sigAt >>

(* The for statement of _execute_applications: the shutdown test, the      *)
(* attempt counter, or the end of the loop with the results dictionary and *)
(* the final report.                                                       *)
(* Mutation of LoopContinues: the shutdown flag is not consulted.          *)
LoopContinuesIgnoringFlag(done, n, running) == done < n

LoopContinues(done, n, running) == done < n /\ running

(* Mutation of CtlLoopHead: the loop steps over a job when it can.          *)
CtlLoopHeadSkips ==
  /\ pc = "ctl_loop"
  /\ IF LoopContinues(i, Len(qualified), is_running)
     THEN /\ i' = IF i + 2 <= Len(qualified) THEN i + 2 ELSE i + 1
          /\ stats' = [stats EXCEPT !.applications_attempted = @ + 1]
          /\ bpc' = "call"
          /\ pc' = "ctl_apply"
          /\ UNCHANGED report
     ELSE /\ report' = GenerateSessionReport(TRUE, "none", TRUE)
          /\ pc' = "ctl_cleanup"
          /\ UNCHANGED << i, stats, bpc >>
  /\ UNCHANGED << cfgVars, searchVars, is_logged_in, ledgerVars, botStats, current_step, pageDone, clicks, fills, excAt,
                  applyResult, sessVars, scoreVars, results, outcome, delays,
                  is_running, sigAt >>

CtlLoopHead ==
  /\ pc = "ctl_loop"
  /\ IF LoopContinues(i, Len(qualified), is_running)
     THEN /\ i' = i + 1
          /\ stats' = [stats EXCEPT !.applications_attempted = @ + 1]
          /\ bpc' = "call"
          /\ pc' = "ctl_apply"
          /\ UNCHANGED report
     ELSE /\ report' = GenerateSessionReport(TRUE, "none", TRUE)
          /\ pc' = "ctl_cleanup"
          /\ UNCHANGED << i, stats, bpc >>
  /\ UNCHANGED << cfgVars, searchVars, is_logged_in, ledgerVars, botStats, current_step, pageDone, clicks, fills, excAt,
                  applyResult, sessVars, scoreVars, results, outcome, delays,
                  is_running, sigAt >>

(* The statements after apply_to_job returned: the ledger record, the      *)
(* counters and the test that decides on the delay.                        *)
(* Mutation of StatusOf: the two statuses are swapped.                     *)
StatusOfSwapped(success) == IF success THEN "Failed" ELSE "Applied"

StatusOf(success) == IF success THEN "Applied" ELSE "Failed"

CtlLogResult ==
  /\ pc = "ctl_apply" /\ bpc = "ret"
  /\ LET success == (applyResult = "True")
         job == qualified[i]
     IN  /\ ledger' = LogApplication(ledgerReadable, ledgerExists, ledger, job.url, StatusOf(success))
         /\ runRecords' = Append(runRecords, [job |-> i, status |-> StatusOf(success)])
         /\ results' = IF success THEN [results EXCEPT !.successful = @ + 1]
                       ELSE [results EXCEPT !.failed = @ + 1]
         /\ stats' = IF success THEN [stats EXCEPT !.applications_successful = @ + 1]
                     ELSE stats
  /\ bpc' = "idle"
  /\ applyResult' = "none"
  /\ excAt' = "none"
  /\ pc' = IF i < Len(qualified) /\ is_running THEN "ctl_sleep" ELSE "ctl_loop"
  /\ UNCHANGED << cfgVars, searchVars, is_logged_in, ledgerExists, botStats, current_step, pageDone, clicks, fills,
                  sessVars, scoreVars, i, delays, outcome, is_running, sigAt, report >>

(* Mutation of CtlSleep: time.sleep does not return.                       *)
CtlSleepBlocks ==
  /\ pc = "ctl_sleep"
  /\ pc' = "ctl_sleep"
  /\ UNCHANGED << cfgVars, searchVars, is_logged_in, ledgerVars, botVars, sessVars, scoreVars, loopVars, outcome,
                  is_running, stats, sigAt, report >>

CtlSleep ==
  /\ pc = "ctl_sleep"
  /\ delays' = delays + 1
  /\ pc' = "ctl_loop"
  /\ UNCHANGED << cfgVars, searchVars, is_logged_in, ledgerVars, botVars, sessVars, scoreVars, i, results, outcome,
                  is_running, stats, sigAt, report >>

(* Mutation of CtlApplyRaises: the handler leaves the loop.                 *)
CtlApplyRaisesHalts ==
  /\ pc = "ctl_apply" /\ bpc \in {"call", "raised"}
  /\ ledger' = LogApplication(ledgerReadable, ledgerExists, ledger, qualified[i].url, "Error")
  /\ runRecords' = Append(runRecords, [job |-> i, status |-> "Error"])
  /\ outcome' = Append(outcome, "Exception")
  /\ results' = [results EXCEPT !.failed = @ + 1]
  /\ stats' = [stats EXCEPT !.errors_encountered = @ + 1]
  /\ bpc' = "idle"
  /\ applyResult' = "none"
  /\ excAt' = "none"
  /\ report' = GenerateSessionReport(TRUE, "none", TRUE)
  /\ pc' = "ctl_cleanup"
  /\ UNCHANGED << cfgVars, searchVars, is_logged_in, ledgerExists, botStats, current_step, pageDone, clicks, fills,
                  sessVars, scoreVars, i, delays, is_running, sigAt >>

(* The apply statement raises: the handler of the loop writes an Error     *)
(* record and continues with the next job.                                 *)
CtlApplyRaises ==
  /\ pc = "ctl_apply" /\ bpc \in {"call", "raised"}
  /\ ledger' = LogApplication(ledgerReadable, ledgerExists, ledger, qualified[i].url, "Error")
  /\ runRecords' = Append(runRecords, [job |-> i, status |-> "Error"])
  /\ outcome' = Append(outcome, "Exception")
  /\ results' = [results EXCEPT !.failed = @ + 1]
  /\ stats' = [stats EXCEPT !.errors_encountered = @ + 1]
  /\ bpc' = "idle"
  /\ applyResult' = "none"
  /\ excAt' = "none"
  /\ pc' = "ctl_loop"
  /\ UNCHANGED << cfgVars, searchVars, is_logged_in, ledgerExists, botStats, current_step, pageDone, clicks, fills,
                  sessVars, scoreVars, i, delays, is_running, sigAt, report >>

(* finally: _cleanup_resources, then the report is returned.               *)
(* Mutation of CloseBrowser: driver.quit is not called.                    *)
CloseBrowserNoQuit(n) == n

CloseBrowser(n) == IF driver = "open" THEN n + 1 ELSE n

CtlCleanup ==
  /\ pc = "ctl_cleanup"
  /\ quitCalls' = IF botCreated THEN CloseBrowser(quitCalls) ELSE quitCalls
  /\ pc' = "done"
  /\ UNCHANGED << cfgVars, searchVars, is_logged_in, ledgerVars, botVars, botCreated, driver, scoreVars, loopVars, outcome,
                  is_running, stats, sigAt, report >>

(* _signal_handler: SIGINT or SIGTERM during the run only clears the flag. *)
SignalPhase ==
  IF pc \in {"ctl_sleep", "ctl_loop"} THEN "between"
  ELSE IF pc = "ctl_apply" THEN "inflight"
  ELSE IF pc = "ctl_cleanup" THEN "post"
  ELSE "pre"

(* Mutation of CtlSignal: the signal also abandons the job in flight.      *)
CtlSignalAborts ==
  /\ entry = "controller"
  /\ pc \notin {"start", "done", "crashed"}
  /\ is_running
  /\ is_running' = FALSE
  /\ sigAt' = [ phase |-> SignalPhase,
                k |-> IF pc = "ctl_apply" THEN i - 1 ELSE i, at |-> bpc ]
  /\ pc' = IF pc = "ctl_apply" THEN "ctl_loop" ELSE pc
  /\ bpc' = "idle"
  /\ UNCHANGED << cfgVars, searchVars, is_logged_in, ledgerVars, botStats, current_step, pageDone, clicks, fills,
                  excAt, applyResult, sessVars, scoreVars, loopVars, outcome, stats, report >>

CtlSignal ==
  /\ entry = "controller"
  /\ pc \notin {"start", "done", "crashed"}
  /\ is_running
  /\ is_running' = FALSE
  /\ sigAt' = [ phase |-> SignalPhase,
                k |-> IF pc = "ctl_apply" THEN i - 1 ELSE i, at |-> bpc ]
  /\ UNCHANGED << cfgVars, searchVars, is_logged_in, pc, ledgerVars, botVars, sessVars, scoreVars, loopVars, outcome,
                  stats, report >>

(* ---------------- LinkedInApplicationBot.apply_to_job ------------------ *)
InApply == pc \in {"ctl_apply", "m_apply"}

Absorb(exc) == IF exc THEN "helper" ELSE excAt

(* return True / return False of apply_to_job.                             *)
Return(val) ==
  /\ applyResult' = val
  /\ outcome' = Append(outcome, IF val = "True" THEN "Complete" ELSE "Abandoned")
  /\ bpc' = "ret"

Continue(next) ==
  /\ bpc' = next
  /\ UNCHANGED << applyResult, outcome >>

(* Mutation of BotEnter: the attempt is not counted.                       *)
BotEnterUncounted ==
  /\ InApply /\ bpc = "call"
  /\ botStats' = botStats
  /\ bpc' = "nav"
  /\ current_step' = 0
  /\ pageDone' = FALSE
  /\ clicks' = 0
  /\ fills' = 0
  /\ excAt' = "none"
  /\ UNCHANGED << cfgVars, searchVars, is_logged_in, pc, ledgerVars, applyResult, sessVars, scoreVars, loopVars, outcome,
                  is_running, stats, sigAt, report >>

BotEnter ==
  /\ InApply /\ bpc = "call"
  /\ botStats' = [botStats EXCEPT !.applications_attempted = @ + 1]
  /\ bpc' = "nav"
  /\ current_step' = 0
  /\ pageDone' = FALSE
  /\ clicks' = 0
  /\ fills' = 0
  /\ excAt' = "none"
  /\ UNCHANGED << cfgVars, searchVars, is_logged_in, pc, ledgerVars, applyResult, sessVars, scoreVars, loopVars, outcome,
                  is_running, stats, sigAt, report >>

(* driver.get(job_url): an exception goes to the handler of apply_to_job.  *)
BotNavigate ==
  /\ InApply /\ bpc = "nav"
  /\ \E ok \in BOOLEAN :
       /\ bpc' = IF ok THEN "find" ELSE "except"
       /\ excAt' = IF ok THEN excAt ELSE "handler"
  /\ UNCHANGED << cfgVars, searchVars, is_logged_in, pc, ledgerVars, botStats, current_step, pageDone, clicks, fills,
                  applyResult, sessVars, scoreVars, loopVars, outcome, is_running, stats, sigAt, report >>

(* _find_easy_apply_button: a selector whose lookup raises is skipped; no  *)
(* button returns False without counting a failure.                        *)
(* Mutation of BotFindButton: a missing button raises to the caller.       *)
BotFindButtonRaises ==
  /\ InApply /\ bpc = "find"
  /\ \E found \in BOOLEAN, exc \in BOOLEAN :
       /\ excAt' = Absorb(exc)
       /\ IF found THEN Continue("click") ELSE Continue("raised")
  /\ UNCHANGED << cfgVars, searchVars, is_logged_in, pc, ledgerVars, botStats, current_step, pageDone, clicks, fills,
                  sessVars, scoreVars, loopVars, is_running, stats, sigAt, report >>

BotFindButton ==
  /\ InApply /\ bpc = "find"
  /\ \E found \in BOOLEAN, exc \in BOOLEAN :
       /\ excAt' = Absorb(exc)
       /\ IF found THEN Continue("click") ELSE Return("False")
  /\ UNCHANGED << cfgVars, searchVars, is_logged_in, pc, ledgerVars, botStats, current_step, pageDone, clicks, fills,
                  sessVars, scoreVars, loopVars, is_running, stats, sigAt, report >>

(* easy_apply_button.click(): the form opens, or the click raises.         *)
BotClickApply ==
  /\ InApply /\ bpc = "click"
  /\ \/ /\ bpc' = "check"
          /\ pageDone' \in BOOLEAN
          /\ UNCHANGED excAt
       \/ /\ bpc' = "except"
          /\ excAt' = "handler"
          /\ UNCHANGED pageDone
  /\ UNCHANGED << cfgVars, searchVars, is_logged_in, pc, ledgerVars, botStats, current_step, clicks, fills, applyResult,
                  sessVars, scoreVars, loopVars, outcome, is_running, stats, sigAt, report >>

(* _process_application_forms: the while test, the step counter and        *)
(* _is_application_complete.                                               *)
(* Mutation of WhileCondition: the bound is tested off by one.             *)
WhileConditionOffByOne(step) == step <= max_steps

WhileCondition(step) == step < max_steps

(* Mutation of BotStepCheck: the fields of the step are populated before   *)
(* the completion indicators are looked up.                                *)
BotStepCheckAfterFill ==
  /\ InApply /\ bpc = "check"
  /\ IF WhileCondition(current_step)
     THEN /\ current_step' = current_step + 1
          /\ fills' = fills + 1
          /\ IF pageDone
             THEN /\ botStats' = [botStats EXCEPT !.applications_successful = @ + 1]
                  /\ Return("True")
             ELSE /\ Continue("proceed")
                  /\ UNCHANGED botStats
     ELSE /\ botStats' = [botStats EXCEPT !.applications_failed = @ + 1]
          /\ Return("False")
          /\ UNCHANGED << current_step, fills >>
  /\ UNCHANGED << cfgVars, searchVars, is_logged_in, pc, ledgerVars, pageDone, clicks, excAt, sessVars, scoreVars,
                  loopVars, is_running, stats, sigAt, report >>

BotStepCheck ==
  /\ InApply /\ bpc = "check"
  /\ IF WhileCondition(current_step)
     THEN /\ current_step' = current_step + 1
          /\ IF pageDone
             THEN /\ botStats' = [botStats EXCEPT !.applications_successful = @ + 1]
                  /\ Return("True")
             ELSE /\ Continue("fill")
                  /\ UNCHANGED botStats
     ELSE /\ botStats' = [botStats EXCEPT !.applications_failed = @ + 1]
          /\ Return("False")
          /\ UNCHANGED current_step
  /\ fills' = fills
  /\ UNCHANGED << cfgVars, searchVars, is_logged_in, pc, ledgerVars, pageDone, clicks, excAt, sessVars, scoreVars,
                  loopVars, is_running, stats, sigAt, report >>

(* _fill_current_form_step: every helper swallows the exceptions of its    *)
(* own driver calls, so the step reports True.                             *)
BotFill ==
  /\ InApply /\ bpc = "fill"
  /\ \E exc \in BOOLEAN : excAt' = Absorb(exc)
  /\ fills' = fills + 1
  /\ bpc' = "proceed"
  /\ UNCHANGED << cfgVars, searchVars, is_logged_in, pc, ledgerVars, botStats, current_step, pageDone, clicks,
                  applyResult, sessVars, scoreVars, loopVars, outcome, is_running, stats, sigAt, report >>

(* _proceed_to_next_step: the first enabled control is clicked; a selector *)
(* whose lookup or click raises is skipped; no control ends the attempt.   *)
BotProceed ==
  /\ InApply /\ bpc = "proceed"
  /\ \E clicked \in BOOLEAN, exc \in BOOLEAN :
       /\ excAt' = Absorb(exc)
       /\ IF clicked
          THEN /\ clicks' = clicks + 1
               /\ pageDone' \in BOOLEAN
               /\ Continue("check")
               /\ UNCHANGED botStats
          ELSE /\ botStats' = [botStats EXCEPT !.applications_failed = @ + 1]
               /\ Return("False")
               /\ UNCHANGED << clicks, pageDone >>
  /\ UNCHANGED << cfgVars, searchVars, is_logged_in, pc, ledgerVars, current_step, fills, sessVars, scoreVars, loopVars,
                  is_running, stats, sigAt, report >>

(* Mutation of BotExcept: the handler re-raises to the caller.             *)
BotExceptReraises ==
  /\ InApply /\ bpc = "except"
  /\ botStats' = [botStats EXCEPT !.applications_failed = @ + 1]
  /\ bpc' = "raised"
  /\ UNCHANGED << cfgVars, searchVars, is_logged_in, pc, ledgerVars, current_step, pageDone, clicks, fills, excAt, applyResult,
                  sessVars, scoreVars, loopVars, outcome, is_running, stats, sigAt, report >>

(* except Exception of apply_to_job.                                       *)
BotExcept ==
  /\ InApply /\ bpc = "except"
  /\ botStats' = [botStats EXCEPT !.applications_failed = @ + 1]
  /\ Return("False")
  /\ UNCHANGED << cfgVars, searchVars, is_logged_in, pc, ledgerVars, current_step, pageDone, clicks, fills, excAt,
                  sessVars, scoreVars, loopVars, is_running, stats, sigAt, report >>

(* ------------------------------- main() -------------------------------- *)
(* The daily-limit check at the top of main().                             *)
MainStart ==
  /\ entry = "main" /\ pc = "start"
  /\ credentials
  /\ LET today_count == CalculateApplicationsToday(ledgerReadable, ledgerExists, ledger)
     IN  IF LimitReached(today_count, maxPerDay)
         THEN pc' = "m_finally" /\ UNCHANGED remaining
         ELSE pc' = "m_init" /\ remaining' = maxPerDay - today_count
  /\ UNCHANGED << cfgVars, searchVars, is_logged_in, ledgerVars, botVars, sessVars, discovered, j, qualified, handed, analyses,
                  loopVars, outcome, is_running, stats, sigAt, report >>

(* scraper, tailor, automation_bot, tracker (ensure_csv_exists), in that   *)
(* order; an exception is re-raised after the finally clause.              *)
MainInitComponents ==
  /\ pc = "m_init"
  /\ \E res \in {"ok", "fail_before_bot", "fail_at_tracker"} :
       /\ botCreated' = (res # "fail_before_bot")
       /\ ledgerExists' = IF res = "ok" THEN TRUE ELSE ledgerExists
       /\ pc' = IF res = "ok" THEN "m_discover" ELSE "m_finally"
  /\ UNCHANGED << cfgVars, searchVars, is_logged_in, ledger, runRecords, botVars, driver, quitCalls, scoreVars,
                  loopVars, outcome, is_running, stats, sigAt, report >>

MainDiscover ==
  /\ pc = "m_discover"
  /\ SearchReturns
  /\ LET d == RemoveDuplicates(all_jobs) IN
       /\ discovered' = d
       /\ pc' = IF d = << >> THEN "m_finally" ELSE "m_analyze"
  /\ UNCHANGED << cfgVars, searchVars, is_logged_in, ledgerVars, botVars, sessVars, j, qualified, handed, remaining, analyses,
                  loopVars, outcome, is_running, stats, sigAt, report >>

MainAnalyzeStep ==
  /\ pc = "m_analyze"
  /\ IF j < Len(discovered)
     THEN /\ j' = j + 1
          /\ qualified' = QualifiedAfter(qualified, discovered[j + 1], MainPriorityThreshold)
          /\ analyses' = AnalysesAfter(analyses, discovered[j + 1])
          /\ UNCHANGED << pc, handed >>
     ELSE LET q == SortAndLimit(qualified, remaining)
          IN  /\ qualified' = q
              /\ handed' = (q # << >>)
              /\ pc' = IF q = << >> THEN "m_finally" ELSE "m_browser"
              /\ UNCHANGED << j, analyses >>
  /\ UNCHANGED << cfgVars, searchVars, is_logged_in, ledgerVars, botVars, sessVars, discovered, remaining,
                  loopVars, outcome, is_running, stats, sigAt, report >>

MainInitBrowser ==
  /\ pc = "m_browser"
  /\ \E ok \in BOOLEAN :
       /\ driver' = IF ok THEN "open" ELSE driver
       /\ pc' = IF ok THEN "m_login" ELSE "m_finally"
  /\ UNCHANGED << cfgVars, searchVars, is_logged_in, ledgerVars, botVars, botCreated, quitCalls, scoreVars,
                  loopVars, outcome, is_running, stats, sigAt, report >>

(* A failed login closes the browser and returns.                          *)
MainLogin ==
  /\ pc = "m_login"
  /\ botStats' = [botStats EXCEPT !.login_attempts = @ + 1]
  /\ \E ok \in BOOLEAN :
       IF ok
       THEN pc' = "m_loop" /\ is_logged_in' = TRUE /\ UNCHANGED quitCalls
       ELSE pc' = "m_finally" /\ quitCalls' = CloseBrowser(quitCalls) /\ UNCHANGED is_logged_in
  /\ UNCHANGED << cfgVars, searchVars, ledgerVars, bpc, current_step, pageDone, clicks, fills, excAt,
                  applyResult, botCreated, driver, scoreVars, loopVars, outcome, is_running,
                  stats, sigAt, report >>

MainLoopHead ==
  /\ pc = "m_loop"
  /\ IF i < Len(qualified)
     THEN /\ i' = i + 1
          /\ bpc' = "call"
          /\ pc' = "m_apply"
     ELSE /\ pc' = "m_summary"
          /\ UNCHANGED << i, bpc >>
  /\ UNCHANGED << cfgVars, searchVars, is_logged_in, ledgerVars, botStats, current_step, pageDone, clicks, fills, excAt,
                  applyResult, sessVars, scoreVars, results, outcome, delays,
                  is_running, stats, sigAt, report >>

MainLogResult ==
  /\ pc = "m_apply" /\ bpc = "ret"
  /\ LET success == (applyResult = "True")
         job == qualified[i]
     IN  /\ ledger' = LogApplication(ledgerReadable, ledgerExists, ledger, job.url, StatusOf(success))
         /\ runRecords' = Append(runRecords, [job |-> i, status |-> StatusOf(success)])
         /\ results' = IF success THEN [results EXCEPT !.successful = @ + 1] ELSE results
  /\ bpc' = "idle"
  /\ applyResult' = "none"
  /\ excAt' = "none"
  /\ pc' = IF i < Len(qualified) THEN "m_sleep" ELSE "m_loop"
  /\ UNCHANGED << cfgVars, searchVars, is_logged_in, ledgerExists, botStats, current_step, pageDone, clicks, fills,
                  sessVars, scoreVars, i, delays, outcome, is_running, stats, sigAt, report >>

MainSleep ==
  /\ pc = "m_sleep"
  /\ delays' = delays + 1
  /\ pc' = "m_loop"
  /\ UNCHANGED << cfgVars, searchVars, is_logged_in, ledgerVars, botVars, sessVars, scoreVars, i, results, outcome,
                  is_running, stats, sigAt, report >>

MainApplyRaises ==
  /\ pc = "m_apply" /\ bpc \in {"call", "raised"}
  /\ ledger' = LogApplication(ledgerReadable, ledgerExists, ledger, qualified[i].url, "Error")
  /\ runRecords' = Append(runRecords, [job |-> i, status |-> "Error"])
  /\ outcome' = Append(outcome, "Exception")
  /\ bpc' = "idle"
  /\ applyResult' = "none"
  /\ excAt' = "none"
  /\ pc' = "m_loop"
  /\ UNCHANGED << cfgVars, searchVars, is_logged_in, ledgerExists, botStats, current_step, pageDone, clicks, fills,
                  sessVars, scoreVars, i, results, delays, is_running, stats, sigAt, report >>

(* Step 5 of main(): the session summary is logged.                        *)
MainSummary ==
  /\ pc = "m_summary"
  /\ pc' = "m_finally"
  /\ UNCHANGED << cfgVars, searchVars, is_logged_in, ledgerVars, botVars, sessVars, scoreVars, loopVars, outcome,
                  is_running, stats, sigAt, report >>

(* finally: automation_bot.close_browser(); an unbound automation_bot is a *)
(* NameError that the bare except swallows.                                *)
MainFinally ==
  /\ pc = "m_finally"
  /\ quitCalls' = IF botCreated THEN CloseBrowser(quitCalls) ELSE quitCalls
  /\ pc' = "done"
  /\ UNCHANGED << cfgVars, searchVars, is_logged_in, ledgerVars, botVars, botCreated, driver, scoreVars, loopVars, outcome,
                  is_running, stats, sigAt, report >>

(* KeyboardInterrupt: inside the try of the application loop it breaks the *)
(* loop, anywhere else in main() it goes to the outer handler; apply_to_job *)
(* and log_application catch Exception only, so it passes through them.    *)
InterruptPhase ==
  IF pc = "m_apply" THEN (IF bpc = "ret" THEN "returned" ELSE "inflight")
  ELSE IF pc \in {"m_sleep", "m_loop"} THEN "between"
  ELSE IF pc = "m_summary" THEN "post"
  ELSE "pre"

MainInterrupt ==
  /\ entry = "main"
  /\ pc \notin {"start", "m_finally", "done", "crashed"}
  /\ sigAt = NoSignal
  /\ sigAt' = [ phase |-> InterruptPhase,
                k |-> IF pc = "m_apply" THEN i - 1 ELSE i, at |-> bpc ]
  /\ pc' = IF pc \in {"m_apply", "m_sleep"} THEN "m_summary" ELSE "m_finally"
  /\ bpc' = "idle"
  /\ applyResult' = "none"
  /\ excAt' = "none"
  /\ UNCHANGED << cfgVars, searchVars, is_logged_in, ledgerVars, botStats, current_step, pageDone, clicks, fills,
                  sessVars, scoreVars, loopVars, outcome, is_running, stats, report >>

(* ---------------------------- specification ---------------------------- *)
Next ==
  \/ CtlStart \/ CtlPreflight \/ CtlInitComponents \/ CtlDiscover \/ CtlDiscoverRaises
  \/ CtlAnalyzeStep \/ CtlInitBrowser \/ CtlLogin \/ CtlLoopHead \/ CtlLogResult
  \/ CtlSleep \/ CtlApplyRaises \/ CtlCleanup \/ CtlSignal
  \/ BotEnter \/ BotNavigate \/ BotFindButton \/ BotClickApply \/ BotStepCheck
  \/ BotFill \/ BotProceed \/ BotExcept
  \/ MainStart \/ MainInitComponents \/ MainDiscover
  \/ MainAnalyzeStep \/ MainInitBrowser \/ MainLogin \/ MainLoopHead \/ MainLogResult
  \/ MainSleep \/ MainApplyRaises \/ MainSummary \/ MainFinally \/ MainInterrupt
  \/ LoadConfigRaises \/ ScraperQuery \/ ScraperPause

Spec == Init /\ [][Next]_vars

(* The steps of the program itself: everything but the arrival of a signal *)
(* or of an interrupt.  The interpreter runs the one thread of the program *)
(* on, and every external call returns or times out, so a step that stays  *)
(* possible is taken.                                                      *)
ProgramStep ==
  \/ CtlStart \/ CtlPreflight \/ CtlInitComponents \/ CtlDiscover \/ CtlDiscoverRaises
  \/ CtlAnalyzeStep \/ CtlInitBrowser \/ CtlLogin \/ CtlLoopHead \/ CtlLogResult
  \/ CtlSleep \/ CtlApplyRaises \/ CtlCleanup
  \/ BotEnter \/ BotNavigate \/ BotFindButton \/ BotClickApply \/ BotStepCheck
  \/ BotFill \/ BotProceed \/ BotExcept
  \/ MainStart \/ MainInitComponents \/ MainDiscover
  \/ MainAnalyzeStep \/ MainInitBrowser \/ MainLogin \/ MainLoopHead \/ MainLogResult
  \/ MainSleep \/ MainApplyRaises \/ MainSummary \/ MainFinally
  \/ LoadConfigRaises \/ ScraperQuery \/ ScraperPause

(* Runs that start without a ledger file, with a daily limit of zero or    *)
(* with the largest one, and with postings of similarity 0.3 or 0.65.      *)
InitLive ==
  /\ Init
  /\ ~ledgerExists
  /\ maxPerDay \in {0, MaxLimit}
  /\ \A k \in DOMAIN feed : feed[k].sim \in {300, 650}

SpecLive == InitLive /\ [][Next]_vars /\ WF_vars(ProgramStep)

(* applications.csv exists with a size of zero bytes: read_csv raises      *)
(* EmptyDataError on every read, and ensure_csv_exists leaves the file.    *)
InitEmptyLedger ==
  /\ ledgerExists = TRUE
  /\ ledgerReadable = FALSE
  /\ ledger = << >>
  /\ feed \in Discoveries
  /\ InitRun

SpecEmptyLedger == InitEmptyLedger /\ [][Next]_vars

(* applications.csv holds rows but read_csv cannot parse the file.         *)
InitCorruptLedger ==
  /\ ledgerExists = TRUE
  /\ ledgerReadable = FALSE
  /\ ledger \in SeqsUpTo(LedgerRows0, MaxLedger0) \ { << >> }
  /\ feed \in Discoveries
  /\ InitRun

SpecCorruptLedger == InitCorruptLedger /\ [][Next]_vars

(* The platform returns a posting more than once, to the same query or to  *)
(* different ones: up to MaxJobs postings that pass the similarity         *)
(* threshold, over two URLs, with the largest daily limit.                 *)
RepeatedDiscoveries ==
  UNION { [1..n -> { [url |-> u, sim |-> p.sim, nskills |-> p.nskills, level |-> p.level,
                      ncult |-> p.ncult, desc |-> p.desc] :
                     u \in {1, 2}, p \in { q \in PostingKinds : ShouldApply(q.sim) } }]
          : n \in 0..MaxJobs }

InitRepeated ==
  /\ ledgerExists \in BOOLEAN
  /\ ledgerReadable = TRUE
  /\ ledger \in SeqsUpTo(LedgerRows0, MaxLedger0)
  /\ (~ledgerExists => ledger = << >>)
  /\ feed \in RepeatedDiscoveries
  /\ InitRun
  /\ maxPerDay = MaxLimit

SpecRepeated == InitRepeated /\ [][Next]_vars

(* The end-to-end scenario: a daily limit of 2, no ledger rows, and three   *)
(* postings discovered with similarity 0.8, 0.3 and 0.6 in that order;     *)
(* each posting has few or many of the requirements that raise priority.   *)
ScenarioProfiles ==
  { [nskills |-> 0,  level |-> "senior", ncult |-> 0],
    [nskills |-> 10, level |-> "entry",  ncult |-> 0] }

ScenarioSimilarity == << 800, 300, 600 >>

ScenarioDiscoveries ==
  { [k \in 1..3 |-> [url |-> k, sim |-> ScenarioSimilarity[k], nskills |-> f[k].nskills,
                     level |-> f[k].level, ncult |-> f[k].ncult, desc |-> "text"]]
    : f \in [1..3 -> ScenarioProfiles] }

InitScenario ==
  /\ ledgerExists \in BOOLEAN
  /\ ledgerReadable = TRUE
  /\ ledger = << >>
  /\ feed \in ScenarioDiscoveries
  /\ InitRun
  /\ maxPerDay = 2

SpecScenario == InitScenario /\ [][Next]_vars

(* Inputs of the fit scorer: two postings with the same requirements and   *)
(* any two similarity scores, or one posting whose description has no text. *)
ScorerSimilarities == { 0, 600, 1000 }

ScorerProfiles ==
  [ nskills : {0, 5, 10, 15}, level : {"entry", "mid", "senior", "executive"}, ncult : {0, 15} ]

ScorerPosting(u, s, p, d) ==
  [ url |-> u, sim |-> s, nskills |-> p.nskills, level |-> p.level, ncult |-> p.ncult, desc |-> d ]

ScorerFeeds ==
  { << ScorerPosting(1, s[1], p, "text"), ScorerPosting(2, s[2], p, "text") >>
      : s \in ScorerSimilarities \X ScorerSimilarities, p \in ScorerProfiles }
  \cup
  { << ScorerPosting(1, 1000, [nskills |-> 15, level |-> "entry", ncult |-> 15], d) >>
      : d \in {"empty", "none", "nan"} }

InitScorer ==
  /\ ledgerExists \in BOOLEAN
  /\ ledgerReadable = TRUE
  /\ ledger = << >>
  /\ feed \in ScorerFeeds
  /\ InitRun
  /\ maxPerDay = 2

SpecScorer == InitScorer /\ [][Next]_vars

TypeOK ==
  /\ entry \in {"controller", "main"}
  /\ maxPerDay \in LimitSet
  /\ i \in 0..MaxJobs
  /\ j \in 0..MaxJobs
  /\ DEFAULT_KEYWORDS \in KeywordSettings
  /\ spc \in {"loop", "pause"}
  /\ answer \in {"none", "raised", "empty", "batch"}
  /\ pauses \in 0..MaxKeywords
  /\ fills \in 0..max_steps
  /\ Len(queries) \in 0..MaxKeywords
  /\ Len(all_jobs) \in 0..MaxJobs
  /\ current_step \in 0..(max_steps + 1)
  /\ applyResult \in {"none", "True", "False"}
  /\ driver \in {"none", "open"}
  /\ excAt \in {"none", "helper", "handler"}
  /\ \A r \in DOMAIN runRecords : runRecords[r].status \in StatusSet
  /\ \A r \in DOMAIN ledger : ledger[r].status \in StatusSet

(* ------------------------------ properties ----------------------------- *)
TodayCount == CalculateApplicationsToday(ledgerReadable, ledgerExists, ledger)

NewRows == SubSeq(ledger, Len(ledger0) + 1, Len(ledger))

RecordsFor(k) ==
  Cardinality({ r \in DOMAIN NewRows : NewRows[r].url = qualified[k].url })

Selectable(job) ==
  /\ ~CheckAlreadyApplied(TRUE, TRUE, ledger0, job.url)
  /\ AnalyzeApplicationFit(job).should_apply

NumSelectable == Cardinality({ k \in DOMAIN discovered : Selectable(discovered[k]) })

RunEnded == pc = "done"

(* C1: when qualified_jobs is handed to the application phase, in either   *)
(* entry point, its length is at most MAX_APPLICATIONS_PER_DAY minus the   *)
(* number of ledger rows dated today.                                      *)
C1_QuotaBound ==
  pc \in {"ctl_browser", "m_browser"} => Len(qualified) <= maxPerDay - TodayCount

(* The cut is active: more postings qualify than the quota leaves room for *)
(* and the ledger already holds a row of today.                            *)
C1_Witness ==
  /\ pc \in {"ctl_browser", "m_browser"}
  /\ TodayCount >= 1
  /\ NumSelectable > Len(qualified)
  /\ Len(qualified) = maxPerDay - TodayCount

C3_CancelBetweenJobs ==
  ( /\ entry = "controller" /\ RunEnded
    /\ sigAt.phase = "between" /\ sigAt.k < Len(qualified) )
  => /\ Len(runRecords) = sigAt.k
     /\ Len(NewRows) = sigAt.k
     /\ report.made /\ report.attempted = sigAt.k

C3_Witness ==
  /\ entry = "controller" /\ RunEnded
  /\ sigAt.phase = "between" /\ sigAt.k = 1 /\ Len(qualified) = 2
  /\ Len(NewRows) = 1 /\ report.attempted = 1

(* C4: a run that opened the browser session has called driver.quit by the *)
(* time it returns.                                                        *)
C4_SessionClosed == (RunEnded /\ driver = "open") => quitCalls >= 1

(* The login failed in run_daily_automation and the session was closed.    *)
C4_Witness ==
  /\ entry = "controller" /\ RunEnded /\ driver = "open"
  /\ report.reason = "Unexpected error" /\ quitCalls >= 1

(* C5: driver.quit is called at most once on the session of a run.         *)
C5_QuitAtMostOnce == quitCalls <= 1

(* C6: _process_application_forms runs at most max_steps iterations,       *)
(* apply_to_job returns exactly one of True and False, and an attempt that *)
(* used up the step bound returns False.                                   *)
C6_BoundedSteps ==
  /\ current_step <= max_steps
  /\ clicks <= max_steps
  /\ (bpc = "ret" <=> applyResult \in {"True", "False"})
  /\ (bpc # "ret" => applyResult = "none")
  /\ (bpc = "ret" /\ clicks = max_steps => applyResult = "False")

C6_Witness ==
  bpc = "ret" /\ current_step = max_steps /\ clicks = max_steps /\ applyResult = "False"

(* C7 as stated: apply_to_job never raises, and a driver exception at any  *)
(* point of the attempt makes it return False.                             *)
C7_AnyExceptionAbandons ==
  /\ bpc # "raised"
  /\ (bpc = "ret" /\ excAt # "none" => applyResult = "False")

(* C7 as amended: apply_to_job never raises; a driver exception in the     *)
(* navigation or in the Easy Apply click reaches its handler and makes it  *)
(* return False, while one inside a lookup, a field or a proceed click is  *)
(* absorbed on the spot and the attempt goes on to True or False.          *)
C7_NeverRaises ==
  /\ bpc # "raised"
  /\ (bpc = "ret" => applyResult \in {"True", "False"})
  /\ (bpc = "ret" /\ excAt = "handler" => applyResult = "False")

C7_Witness == bpc = "ret" /\ excAt = "handler" /\ applyResult = "False"

(* C8: once the loop has moved past a job whose attempt ended (True, False *)
(* or an exception), the ledger has gained exactly one record for it.      *)
C8_OneRecordPerAttempt ==
  pc \notin {"ctl_apply", "m_apply"}
  => \A k \in DOMAIN outcome : RecordsFor(k) = 1

(* C9: the record of a job is Applied exactly when apply_to_job ended      *)
(* Complete, Failed exactly when it ended Abandoned, Error exactly when an *)
(* exception reached the loop.                                             *)
C9_StatusMatchesOutcome ==
  \A r \in DOMAIN runRecords :
    LET rec == runRecords[r]
    IN  /\ rec.job \in DOMAIN outcome
        /\ NewRows[r].url = qualified[rec.job].url
        /\ NewRows[r].status = rec.status
        /\ (rec.status = "Applied" <=> outcome[rec.job] = "Complete")
        /\ (rec.status = "Failed" <=> outcome[rec.job] = "Abandoned")
        /\ (rec.status = "Error" <=> outcome[rec.job] = "Exception")

C9_Witness ==
  /\ Len(runRecords) = 2
  /\ runRecords[1].status = "Error"
  /\ runRecords[2].status = "Applied"

(* C10: without a shutdown signal or interrupt, a run in which the attempt *)
(* of some job raised has still attempted every selected job.              *)
C10_ErrorDoesNotHalt ==
  ( /\ RunEnded /\ sigAt = NoSignal
    /\ \E k \in DOMAIN outcome : outcome[k] = "Exception" )
  => /\ i = Len(qualified)
     /\ Len(outcome) = Len(qualified)

C10_Witness ==
  /\ RunEnded /\ sigAt = NoSignal
  /\ Len(qualified) = 2 /\ Len(outcome) = 2
  /\ outcome[1] = "Exception"

(* The quota was used up when the run started: the rows dated today are at *)
(* least MAX_APPLICATIONS_PER_DAY.                                         *)
QuotaExhausted0 == CalculateApplicationsToday(ledgerReadable, TRUE, ledger0) >= maxPerDay

(* No discovery call, no scoring, no session and no ledger write happened. *)
NoWorkDone ==
  /\ queries = << >> /\ discovered = << >> /\ j = 0 /\ qualified = << >> /\ ~handed
  /\ driver = "none" /\ botStats.login_attempts = 0
  /\ ledger = ledger0 /\ runRecords = << >> /\ outcome = << >>

(* C11 as stated: a run that finds the remaining daily quota <= 0 at the   *)
(* pre-flight check performs no discovery, no scoring, no session opening  *)
(* and no ledger write, and run_daily_automation returns a report whose    *)
(* reason is the exhausted quota, a reason no run with quota left returns. *)
C11_QuotaExhaustedReason ==
  /\ (RunEnded /\ QuotaExhausted0) =>
        /\ NoWorkDone
        /\ entry = "controller" =>
             report.made /\ ~report.success /\ report.reason = "Pre-flight checks failed"
  /\ (RunEnded /\ entry = "controller" /\ report.reason = "Pre-flight checks failed") =>
        QuotaExhausted0

(* C11 amended: with the quota used up the run never leaves the pre-flight *)
(* position except to end, no discovery, scoring, session or ledger write  *)
(* happens, and the report of run_daily_automation says failure with the   *)
(* reason it gives for every failed pre-flight check.                      *)
C11_ShortCircuit ==
  QuotaExhausted0 =>
    /\ NoWorkDone
    /\ pc \in {"start", "crashed", "ctl_preflight", "ctl_cleanup", "m_finally", "done"}
    /\ ~botCreated
    /\ (RunEnded /\ entry = "controller") =>
          report.made /\ ~report.success /\ report.reason = "Pre-flight checks failed"

(* The quota is used up by rows of today although postings that would      *)
(* qualify are on offer, and the run has ended.                            *)
C11_Witness ==
  /\ RunEnded /\ QuotaExhausted0 /\ maxPerDay >= 1
  /\ \E k \in DOMAIN feed : AnalyzeApplicationFit(feed[k]).should_apply

(* C12: when the session cannot be established (initialize_browser or      *)
(* login_to_linkedin reports failure) the run is fatal: login is attempted *)
(* at most once, no candidate is attempted, no ledger record is written,   *)
(* and run_daily_automation goes to its report, which says failure.        *)
C12_SessionFailureFatal ==
  /\ botStats.login_attempts <= 1
  /\ (handed /\ ~is_logged_in) =>
        /\ i = 0 /\ stats.applications_attempted = 0
        /\ botStats.applications_attempted = 0 /\ bpc = "idle"
        /\ outcome = << >> /\ runRecords = << >> /\ ledger = ledger0
  /\ (handed /\ ~is_logged_in /\ sigAt = NoSignal /\ pc \notin {"ctl_browser", "ctl_login", "m_browser", "m_login"}) =>
        /\ pc \in {"ctl_cleanup", "m_finally", "done"}
        /\ entry = "controller" => report.made /\ ~report.success /\ ~report.has_results

C12_Witness ==
  /\ RunEnded /\ handed /\ ~is_logged_in /\ sigAt = NoSignal
  /\ botStats.login_attempts = 1 /\ driver = "open" /\ Len(qualified) = MaxJobs

(* C13: a corrupt (unreadable) ledger aborts the run before any discovery  *)
(* or submission, with a report that says failure, instead of being        *)
(* treated as zero prior applications; a missing or empty ledger counts as *)
(* zero prior applications without error.                                  *)
C13_CorruptLedgerAborts ==
  /\ (ledger0 = << >>) =>
        /\ CalculateApplicationsToday(ledgerReadable, ledgerExists, ledger0) = 0
        /\ \A u \in 0..MaxJobs : ~CheckAlreadyApplied(ledgerReadable, ledgerExists, ledger0, u)
  /\ (~ledgerReadable /\ ledger0 # << >>) =>
        /\ NoWorkDone
        /\ (RunEnded /\ entry = "controller") => report.made /\ ~report.success

(* C14: check_already_applied(url) is true exactly when some ledger record *)
(* of any status carries the URL, and after log_application was called for *)
(* a job its URL is found by check_already_applied on a fresh read.        *)
C14_ExistsAfterAppend ==
  /\ \A u \in 0..MaxJobs :
        CheckAlreadyApplied(ledgerReadable, ledgerExists, ledger, u)
          <=> (\E k \in DOMAIN ledger : ledger[k].url = u)
  /\ \A r \in DOMAIN runRecords :
        CheckAlreadyApplied(ledgerReadable, ledgerExists, ledger, qualified[runRecords[r].job].url)

(* C15: the ledger is append-only: every log_application call adds one row *)
(* after the rows that were there, the rows of the start of the run stay   *)
(* unchanged and in order, and constructing the tracker creates a ledger   *)
(* without rows only when the file was absent.                             *)
C15_AppendOnly ==
  /\ Len(ledger) = Len(ledger0) + Len(runRecords)
  /\ SubSeq(ledger, 1, Len(ledger0)) = ledger0
  /\ \A r \in DOMAIN runRecords :
        /\ ledger[Len(ledger0) + r].url = qualified[runRecords[r].job].url
        /\ ledger[Len(ledger0) + r].status = runRecords[r].status

(* The filtering of the entry point has run to its end, unbroken by a      *)
(* shutdown signal, and qualified_jobs was just handed on.                 *)
ScoringDone == pc = "m_browser" \/ (pc = "ctl_browser" /\ sigAt = NoSignal)

OperatingThreshold ==
  IF entry = "controller" THEN CtlPriorityThreshold ELSE MainPriorityThreshold

Eligible(k) ==
  /\ ~ \E r \in DOMAIN ledger0 : ledger0[r].url = discovered[k].url
  /\ AnalyzeApplicationFit(discovered[k]).should_apply
  /\ AnalyzeApplicationFit(discovered[k]).priority_score > OperatingThreshold

Quota0 == maxPerDay - CalculateApplicationsToday(ledgerReadable, TRUE, ledger0)

(* C16: the list scoring produces holds exactly the discovered postings    *)
(* that are not in the ledger, have should_apply and a priority_score      *)
(* above the operating threshold, by descending priority_score with equal  *)
(* scores in discovery order, cut to its first `remaining` entries.        *)
C16_ScoringList ==
  ScoringDone =>
    /\ Len(qualified) = Min(Quota0, Cardinality({ k \in DOMAIN discovered : Eligible(k) }))
    /\ \A a \in DOMAIN qualified :
          \E k \in DOMAIN discovered :
            Eligible(k) /\ qualified[a] = AnalyzeApplicationFit(discovered[k])
    /\ \A a, b \in DOMAIN qualified :
          a < b => \/ qualified[a].priority_score > qualified[b].priority_score
                   \/ /\ qualified[a].priority_score = qualified[b].priority_score
                      /\ qualified[a].url < qualified[b].url
    /\ \A k \in DOMAIN discovered :
          (Eligible(k) /\ \A a \in DOMAIN qualified : qualified[a].url # discovered[k].url)
            => \A a \in DOMAIN qualified :
                 \/ qualified[a].priority_score > AnalyzeApplicationFit(discovered[k]).priority_score
                 \/ /\ qualified[a].priority_score = AnalyzeApplicationFit(discovered[k]).priority_score
                    /\ qualified[a].url < discovered[k].url

(* Two eligible postings have the same priority_score and the quota leaves *)
(* room for one: the first discovered is the one kept.                     *)
C16_Witness ==
  /\ ScoringDone /\ Quota0 = 1 /\ Len(qualified) = 1
  /\ \E k, l \in DOMAIN discovered :
       /\ k < l /\ Eligible(k) /\ Eligible(l)
       /\ AnalyzeApplicationFit(discovered[k]).priority_score
            = AnalyzeApplicationFit(discovered[l]).priority_score

(* The run went through without a failed session, a shutdown signal or an  *)
(* interrupt.                                                              *)
NominalRunEnded == RunEnded /\ handed /\ is_logged_in /\ sigAt = NoSignal

QualifiedURLs == [a \in DOMAIN qualified |-> qualified[a].url]

SameProfile(k, l) ==
  /\ discovered[k].nskills = discovered[l].nskills
  /\ discovered[k].level = discovered[l].level
  /\ discovered[k].ncult = discovered[l].ncult

(* C17 as stated: with a daily limit of 2, an empty ledger and postings of *)
(* similarity 0.8, 0.3 and 0.6, scoring selects the 0.8 posting and the    *)
(* 0.6 posting in that order, both are attempted, the quota of 2 is used   *)
(* up, and the 0.3 posting is never attempted.                             *)
C17_ScenarioAsStated ==
  /\ ScoringDone => QualifiedURLs = << 1, 3 >>
  /\ NominalRunEnded =>
        /\ Len(outcome) = 2 /\ TodayCount = maxPerDay
        /\ \A r \in DOMAIN ledger : ledger[r].url # 2

(* C17 amended: the same scenario with the 0.8 posting and the 0.6 posting *)
(* carrying the same skills, experience level and culture keywords.        *)
C17_ScenarioEqualBoosts ==
  /\ (ScoringDone /\ SameProfile(1, 3)) => QualifiedURLs = << 1, 3 >>
  /\ ScoringDone => { qualified[a].url : a \in DOMAIN qualified } = {1, 3}
  /\ NominalRunEnded =>
        /\ Len(outcome) = 2 /\ TodayCount = maxPerDay
        /\ \A r \in DOMAIN ledger : ledger[r].url # 2

C17_Witness ==
  /\ NominalRunEnded /\ SameProfile(1, 3) /\ QualifiedURLs = << 1, 3 >>
  /\ Len(ledger) = 2 /\ ledger[1].url = 1 /\ ledger[2].url = 3

(* The discovered posting an analysis result belongs to.                   *)
PostingOf(a) == discovered[analyses[a].url]

(* The priority the formula of the fit scorer gives, in thousandths.       *)
ClaimedSum(sim, nskills, level, ncult) ==
  sim + Min(20 * nskills, 200) + (IF level \in {"entry", "mid"} THEN 100 ELSE 50) + 10 * ncult

ClaimedPriority(sim, nskills, level, ncult) ==
  Max(0, Min(ClaimedSum(sim, nskills, level, ncult), 1000))

(* C18: for every similarity score, matched-skill count, experience level  *)
(* and culture-keyword count, priority_score is similarity plus            *)
(* min(0.02 x skills, 0.2) plus 0.1 for entry or mid and 0.05 otherwise    *)
(* plus 0.01 x culture keywords, clamped, and lies in [0,1].               *)
C18_PriorityFormula ==
  \A a \in DOMAIN analyses :
    PostingOf(a).desc = "text" =>
      /\ analyses[a].priority_score
           = ClaimedPriority(analyses[a].similarity_score, PostingOf(a).nskills,
                             PostingOf(a).level, PostingOf(a).ncult)
      /\ analyses[a].priority_score \in 0..1000

(* Two postings with 15 skills at entry level: the skill boost is capped   *)
(* for both and the sum of the second is clamped.                          *)
C18_Witness ==
  /\ Len(analyses) = 2
  /\ PostingOf(1).nskills = 15 /\ PostingOf(1).level = "entry" /\ PostingOf(1).ncult = 0
  /\ analyses[1].similarity_score = 600 /\ analyses[1].priority_score = 900
  /\ analyses[2].similarity_score = 1000 /\ analyses[2].priority_score = 1000
  /\ ClaimedSum(1000, PostingOf(2).nskills, PostingOf(2).level, PostingOf(2).ncult) > 1000

(* C19: with skills, experience level and culture keywords held fixed,     *)
(* priority_score does not decrease when similarity_score grows.           *)
C19_MonotonicInSimilarity ==
  \A a, b \in DOMAIN analyses :
    ( /\ analyses[a].requirements = analyses[b].requirements
      /\ analyses[a].similarity_score <= analyses[b].similarity_score )
    => analyses[a].priority_score <= analyses[b].priority_score

(* Both cases are present: a higher similarity with a higher priority, and *)
(* (second disjunct) a higher similarity whose sum is clamped to the same. *)
C19_Witness ==
  /\ Len(analyses) = 2
  /\ analyses[1].requirements = analyses[2].requirements
  /\ analyses[2].similarity_score < analyses[1].similarity_score
  /\ analyses[2].priority_score < analyses[1].priority_score
  /\ analyses[1].priority_score = 1000

PhaseRank(p) ==
  IF p \in {"start", "ctl_preflight", "ctl_init", "m_init"} THEN 1
  ELSE IF p \in {"ctl_discover", "m_discover"} THEN 2
  ELSE IF p \in {"ctl_analyze", "m_analyze"} THEN 3
  ELSE IF p \in {"ctl_browser", "ctl_login", "m_browser", "m_login"} THEN 4
  ELSE IF p \in {"ctl_loop", "ctl_apply", "ctl_sleep", "m_loop", "m_apply", "m_sleep"} THEN 5
  ELSE IF p \in {"m_summary", "ctl_cleanup", "m_finally"} THEN 6
  ELSE 7

PhaseFacts ==
  /\ (driver = "open" \/ botStats.login_attempts > 0) => (handed /\ qualified # << >>)
  /\ botStats.login_attempts > 0 => driver = "open"
  /\ (i > 0 \/ bpc # "idle" \/ outcome # << >> \/ botStats.applications_attempted > 0)
       => is_logged_in
  /\ PhaseRank(pc) \in 3..5 => (discovered = feed /\ feed # << >>)
  /\ PhaseRank(pc) <= 3 => (driver = "none" /\ ~is_logged_in /\ i = 0)
  /\ PhaseRank(pc) <= 2 => (j = 0 /\ qualified = << >> /\ analyses = << >>)

(* C21: the phases of a run occur in the order pre-flight check,           *)
(* discovery, scoring, authentication, submission, report; a phase may be  *)
(* skipped but never comes back; no session is opened before scoring has   *)
(* produced a non-empty list and no job is attempted before the login      *)
(* succeeded.                                                              *)
C21_PhaseOrder ==
  /\ [] PhaseFacts
  /\ [][PhaseRank(pc') >= PhaseRank(pc)]_vars

C21_Witness ==
  /\ RunEnded /\ is_logged_in /\ sigAt = NoSignal
  /\ Len(outcome) = MaxJobs /\ Len(discovered) = MaxJobs

(* The shutdown flag of run_daily_automation has been set by a signal.     *)
FlagSet == entry = "controller" /\ sigAt # NoSignal

(* C22: once the shutdown flag is set, no further job is attempted, no     *)
(* record is written for a job that was not in flight, and no browser      *)
(* session is opened or logged in.                                         *)
C22_NoNewWorkAfterFlag ==
  [][ FlagSet =>
        /\ i' = i
        /\ stats'.applications_attempted = stats.applications_attempted
        /\ (runRecords' # runRecords => (pc = "ctl_apply" /\ Len(runRecords') = i))
        /\ driver' = driver
        /\ botStats'.login_attempts = botStats.login_attempts
        /\ is_logged_in' = is_logged_in ]_vars

(* C23: in run_daily_automation a signal that arrives while a job is in    *)
(* flight changes the flag only; the attempt reaches its outcome and its   *)
(* ledger record is written before the loop stops, and no later job is     *)
(* attempted, wherever in the attempt the signal arrived.                  *)
C23_InFlightFinishes ==
  /\ [][ (sigAt' # sigAt /\ entry = "controller") =>
          (is_running /\ ~is_running' /\
           << pc, bpc, ledger, runRecords, outcome, i, stats, botStats, driver, quitCalls >>' =
           << pc, bpc, ledger, runRecords, outcome, i, stats, botStats, driver, quitCalls >>) ]_vars
  /\ [] ( (entry = "controller" /\ sigAt.phase = "inflight" /\ pc \in {"ctl_cleanup", "done"}) =>
            /\ i = sigAt.k + 1
            /\ Len(outcome) = sigAt.k + 1
            /\ Len(runRecords) = sigAt.k + 1
            /\ Len(NewRows) = sigAt.k + 1
            /\ NewRows[sigAt.k + 1].url = qualified[sigAt.k + 1].url
            /\ runRecords[sigAt.k + 1].job = sigAt.k + 1
            /\ (outcome[sigAt.k + 1] = "Complete") = (runRecords[sigAt.k + 1].status = "Applied") )

(* The signal arrived when apply_to_job had returned True and the record   *)
(* was not yet written, with another job still waiting.                    *)
C23_Witness ==
  /\ entry = "controller" /\ RunEnded
  /\ sigAt.phase = "inflight" /\ sigAt.at = "ret" /\ sigAt.k = 0
  /\ Len(qualified) = 2 /\ Len(NewRows) = 1 /\ NewRows[1].status = "Applied"

(* C24: once the shutdown flag of run_daily_automation is set during       *)
(* discovery, after a first pair has been passed to the platform,          *)
(* search_all_combinations passes no further (keyword, location) pair.     *)
C24_NoQueryAfterFlag ==
  [][ (FlagSet /\ InDiscovery /\ queries # << >>) => queries' = queries ]_vars

(* C25: in the application loop the inter-application delay is slept after *)
(* every attempted job that is not the last of the list, whether the job   *)
(* ended Applied, Failed or Error, and never after the last one: while job *)
(* i is attempted without a signal or interrupt, i - 1 delays have been    *)
(* slept, and never more than Len(qualified) - 1.                          *)
C25_DelayAfterEveryButLast ==
  /\ delays <= Max(Len(qualified) - 1, 0)
  /\ (InApply /\ sigAt = NoSignal) => delays = i - 1

(* C26: on every form step the completion indicators are looked up before  *)
(* a field of that step is populated and before a proceed control of that  *)
(* step is clicked, and when an indicator is present apply_to_job returns  *)
(* True on that step with nothing typed or clicked on it.                  *)
C26_CompletionCheckedFirst ==
  /\ [] ( InApply =>
            /\ bpc = "fill" => (fills = current_step - 1 /\ clicks = current_step - 1)
            /\ bpc = "proceed" => (fills = current_step /\ clicks = current_step - 1)
            /\ bpc = "check" => (fills = current_step /\ clicks = current_step)
            /\ (bpc = "ret" /\ applyResult = "True") =>
                 /\ pageDone
                 /\ fills = current_step - 1 /\ clicks = current_step - 1
                 /\ outcome[Len(outcome)] = "Complete" )
  /\ [][ (InApply /\ bpc = "check" /\ bpc' # "check" /\ sigAt' = sigAt /\ pageDone
            /\ WhileCondition(current_step)) =>
          (bpc' = "ret" /\ applyResult' = "True" /\ fills' = fills /\ clicks' = clicks) ]_vars

(* The second step shows a completion indicator after the first step was   *)
(* filled and its proceed control clicked.                                 *)
C26_Witness ==
  /\ InApply /\ bpc = "ret" /\ applyResult = "True"
  /\ current_step = 2 /\ fills = 1 /\ clicks = 1

(* apply_to_job returned because no Easy Apply button was found.           *)
NoApplyButton ==
  InApply /\ bpc = "ret" /\ excAt # "handler" /\ current_step = 0

(* apply_to_job returned because the current step has no proceed control.  *)
NoProceedControl ==
  /\ InApply /\ bpc = "ret" /\ applyResult = "False" /\ excAt # "handler"
  /\ current_step > 0 /\ clicks = current_step - 1

(* C27: a missing control is an expected outcome.  Without an Easy Apply   *)
(* button the attempt is abandoned before any form interaction; without a  *)
(* proceed control on a step it is abandoned on that step; in both cases   *)
(* nothing is raised to the loop, the job is recorded Failed, no error is  *)
(* counted and the loop goes on.                                           *)
C27_MissingControlExpected ==
  /\ [][ (InApply /\ bpc = "find" /\ bpc' \notin {"find", "click"} /\ sigAt' = sigAt) =>
          /\ bpc' = "ret" /\ applyResult' = "False"
          /\ outcome' = Append(outcome, "Abandoned")
          /\ current_step' = 0 /\ fills' = 0 /\ clicks' = 0
          /\ NoApplyButton' ]_vars
  /\ [][ (InApply /\ bpc = "proceed" /\ bpc' \notin {"proceed", "check"} /\ sigAt' = sigAt) =>
          /\ bpc' = "ret" /\ applyResult' = "False"
          /\ outcome' = Append(outcome, "Abandoned")
          /\ current_step' = current_step /\ fills' = fills /\ clicks' = clicks
          /\ NoProceedControl' ]_vars
  /\ [][ ((NoApplyButton \/ NoProceedControl) /\ sigAt' = sigAt) =>
          /\ runRecords' = Append(runRecords, [job |-> i, status |-> "Failed"])
          /\ stats'.errors_encountered = stats.errors_encountered
          /\ outcome' = outcome
          /\ pc' \in {"ctl_loop", "ctl_sleep", "m_loop", "m_sleep"} ]_vars
  /\ [] ( (pc \in {"ctl_apply", "m_apply"} /\ i > 1) => Len(runRecords) >= i - 1 )

(* The first job had no Easy Apply button and was recorded Failed; the     *)
(* second one is abandoned on its second step for want of a proceed        *)
(* control.                                                                *)
C27_Witness ==
  /\ NoProceedControl /\ current_step = 2 /\ i = 2
  /\ outcome = << "Abandoned", "Abandoned" >>
  /\ runRecords = << [job |-> 1, status |-> "Failed"] >>
  /\ botStats.applications_failed = 1

(* The pairs search_all_combinations has to query in this run.             *)
ConfiguredPairs == SearchPairs(JobSearchKeywords(DEFAULT_KEYWORDS), JobSearchLocations)

(* C28: discovery passes every pair of the keyword x location product to   *)
(* the platform exactly once, in loop order, and sleeps a pacing delay     *)
(* between any two consecutive queries; a query that raises or returns     *)
(* nothing adds no posting and the remaining pairs are still queried.      *)
C28_OneQueryPerPair ==
  /\ [] ( /\ Len(queries) <= Len(ConfiguredPairs)
          /\ queries = SubSeq(ConfiguredPairs, 1, Len(queries))
          /\ \A kw \in 1..MaxKeywords : \A loc \in {1} :
               (\E n \in DOMAIN DEFAULT_KEYWORDS : DEFAULT_KEYWORDS[n] = kw) =>
                 Cardinality({ n \in DOMAIN ConfiguredPairs :
                                 ConfiguredPairs[n] = [keyword |-> kw, location |-> loc] }) = 1
          /\ Len(ConfiguredPairs) = Len(JobSearchKeywords(DEFAULT_KEYWORDS)) )
  /\ [] ( (SearchReturns \/ PhaseRank(pc) \in 3..5) => queries = ConfiguredPairs )
  /\ [] ( PhaseRank(pc) \in 3..5 => discovered = feed )
  /\ [][ queries' # queries => (Len(queries') = Len(queries) + 1 /\ pauses = Len(queries)) ]_vars
  /\ [][ (queries' # queries /\ answer' \in {"raised", "empty"}) =>
          (all_jobs' = all_jobs /\ spc' = "pause" /\ pc' = pc /\ pauses' = pauses) ]_vars

(* The second of two queries returned the only posting of the run: the     *)
(* first one raised or came back empty.                                    *)
C28_Witness ==
  /\ InDiscovery /\ spc = "pause" /\ Len(queries) = 2 /\ pauses = 1
  /\ answer = "batch" /\ Len(feed) = 1 /\ all_jobs = feed

(* A required setting is missing: no keyword is configured, or a           *)
(* credential is not set.                                                  *)
MissingConfiguration ==
  JobSearchKeywords(DEFAULT_KEYWORDS) = << >> \/ ~credentials

(* C29: when no keyword is configured or a credential is missing, the run  *)
(* of run_daily_automation fails at the pre-flight check and ends with a   *)
(* report that says failure, without any discovery query and without a     *)
(* browser session.                                                        *)
C29_MissingConfigFatal ==
  (entry = "controller" /\ MissingConfiguration) =>
     /\ queries = << >> /\ driver = "none"
     /\ pc \in {"start", "ctl_preflight", "ctl_cleanup", "done"}
     /\ pc = "done" => (report.made /\ ~report.success
                          /\ report.reason = "Pre-flight checks failed")

(* C30: in every state of a run the attempts counted are at least the      *)
(* successes plus the failures counted, for the counters of                *)
(* _execute_applications and for the session_stats of the bot.             *)
C30_AttemptedCoversOutcomes ==
  /\ entry = "controller" =>
        /\ stats.applications_attempted >= stats.applications_successful + results.failed
        /\ stats.applications_successful = results.successful
  /\ botStats.applications_attempted >=
        botStats.applications_successful + botStats.applications_failed

(* A run of two jobs: one applied, one without an Easy Apply button, which *)
(* the bot counts as attempted but neither as successful nor as failed.    *)
C30_Witness ==
  /\ entry = "controller" /\ RunEnded
  /\ stats.applications_attempted = 2 /\ results.successful = 1 /\ results.failed = 1
  /\ botStats.applications_attempted = 2 /\ botStats.applications_successful = 1
  /\ botStats.applications_failed = 0

(* get_application_stats: the keys of the ledger summary.                  *)
LedgerStatsKeys ==
  { "total_applications", "applications_today", "avg_similarity_score",
    "top_companies", "response_rate" }

(* C31: the report run_daily_automation returns carries the session        *)
(* counters and the ledger summary (total, today, average similarity, top  *)
(* companies, response rate), on every path that makes a report.           *)
C31_ReportCarriesLedgerStats ==
  (entry = "controller" /\ report.made) =>
     /\ SessionStatsKeys \subseteq report.keys
     /\ LedgerStatsKeys \subseteq report.keys

(* C32: every invocation of run_daily_automation eventually returns a      *)
(* report, whichever way the run goes.                                     *)
C32_EventuallyReports ==
  (entry = "controller" /\ credentials) ~> (pc = "done" /\ report.made)

(* A run that a signal cut short after its first attempt has returned its  *)
(* report.                                                                 *)
C32_Witness ==
  /\ entry = "controller" /\ pc = "done" /\ report.made
  /\ sigAt # NoSignal /\ Len(outcome) = 1 /\ Len(qualified) = 2

(* C33: when the form shows its confirmation after k proceed clicks, with  *)
(* 1 <= k <= max_steps, apply_to_job returns True: no attempt whose last    *)
(* click was confirmed returns False.                                      *)
C33_ConfirmedIsComplete ==
  (InApply /\ bpc = "ret" /\ pageDone /\ clicks \in 1..max_steps) =>
     (applyResult = "True" /\ outcome[Len(outcome)] = "Complete")

(* The rows of a ledger that are dated today, whatever their status.       *)
RowsToday(rows) == Cardinality({k \in DOMAIN rows : rows[k].today})

(* C34: a run that starts with at most MAX_APPLICATIONS_PER_DAY ledger     *)
(* rows dated today never makes that number exceed the limit, rows of      *)
(* every status counted.                                                   *)
C34_DailyLimitKept ==
  RowsToday(ledger0) <= maxPerDay => RowsToday(ledger) <= maxPerDay

(* The run started one row below the limit, more postings qualified than   *)
(* the quota left, and the one attempt made used the quota up with a row   *)
(* that is not Applied.                                                    *)
C34_Witness ==
  /\ RunEnded /\ RowsToday(ledger0) = maxPerDay - 1 /\ RowsToday(ledger0) >= 1
  /\ RowsToday(ledger) = maxPerDay
  /\ Len(analyses) = 2 /\ \A k \in DOMAIN analyses : analyses[k].should_apply
  /\ \E k \in DOMAIN NewRows : NewRows[k].status # "Applied"

(* No two entries of a list carry the same URL.                            *)
DistinctURLs(s) == \A a, b \in DOMAIN s : a # b => s[a].url # s[b].url

(* A ledger holds at most one Applied row per URL.                         *)
OneAppliedPerURL(rows) ==
  \A a, b \in DOMAIN rows :
    (a # b /\ rows[a].url = rows[b].url) => ~(rows[a].status = "Applied" /\ rows[b].status = "Applied")

(* C35: the list handed to the application loop holds no URL twice, a run  *)
(* writes at most one ledger row per URL, and a ledger with at most one    *)
(* Applied row per URL keeps that property.                                *)
C35_NoURLTwice ==
  /\ DistinctURLs(discovered)
  /\ DistinctURLs(qualified)
  /\ DistinctURLs(NewRows)
  /\ \A a \in DOMAIN NewRows : \A b \in DOMAIN ledger0 : NewRows[a].url # ledger0[b].url
  /\ OneAppliedPerURL(ledger0) => OneAppliedPerURL(ledger)

(* The platform returned the same posting twice and another one; both      *)
(* URLs were attempted once and the run has ended.                         *)
C35_Witness ==
  /\ RunEnded /\ Len(feed) = MaxJobs /\ ~DistinctURLs(feed)
  /\ Len(NewRows) >= 1
  /\ \E k \in DOMAIN NewRows : NewRows[k].status = "Applied"

(* C36: jobs are attempted one at a time in ranked order: the jobs         *)
(* attempted so far are the first i of the ranked list, the record of      *)
(* every earlier job is written when job i is in flight, and the rows the  *)
(* run appends to the ledger follow the ranked list.                       *)
C36_RankedOrder ==
  /\ [] ( /\ i \in 0..Len(qualified)
          /\ Len(outcome) \in {i - 1, i} \cap Nat
          /\ handed => \A a, b \in DOMAIN qualified :
                         a < b => qualified[a].priority_score >= qualified[b].priority_score
          /\ InApply => (Len(runRecords) = i - 1 /\ Len(outcome) \in {i - 1, i})
          /\ Len(NewRows) = Len(runRecords)
          /\ \A k \in DOMAIN runRecords :
               runRecords[k].job = k /\ NewRows[k].url = qualified[k].url )
  /\ [][ i' \in {i, i + 1} ]_vars

(* The second job of the ranked list is in flight and the first one has    *)
(* its row.                                                                *)
C36_Witness ==
  /\ InApply /\ i = 2 /\ bpc = "nav"
  /\ Len(NewRows) = 1 /\ NewRows[1].url = qualified[1].url
  /\ qualified[1].priority_score > qualified[2].priority_score
  /\ qualified[1].url > qualified[2].url

(* C37: in the report of run_daily_automation the total_attempted of       *)
(* application_results is the number of jobs the run attempted, also when  *)
(* a signal cut the loop short, and success_rate is taken over that        *)
(* number.                                                                 *)
C37_TotalAttemptedIsAttempted ==
  (entry = "controller" /\ report.made /\ report.has_results) =>
     /\ report.total_attempted = report.attempted
     /\ report.attempted = Len(outcome)
     /\ report.success_rate = SuccessRate(report.successful, report.attempted)

(* The failures of a run of run_daily_automation: the per-job exceptions   *)
(* that reached the loop, and the failed discovery or failed               *)
(* authentication that ended the run with "Unexpected error".              *)
FailureEvents ==
  Cardinality({ k \in DOMAIN outcome : outcome[k] = "Exception" })
    + (IF report.made /\ report.reason = "Unexpected error" THEN 1 ELSE 0)

(* C38: every failure of a run adds exactly one to errors_encountered: the *)
(* report of a run with f failures shows errors_encountered = f.           *)
C38_OneErrorPerFailure ==
  (entry = "controller" /\ report.made) =>
     (report.errors = FailureEvents /\ stats.errors_encountered = FailureEvents)

(* The filtering loop of either entry point run over a list of postings    *)
(* with a given priority threshold.                                        *)
RECURSIVE FilterJobs(_, _)
FilterJobs(jobs, threshold) ==
  IF jobs = << >> THEN << >>
  ELSE QualifiedAfter(FilterJobs(SubSeq(jobs, 1, Len(jobs) - 1), threshold),
                      jobs[Len(jobs)], threshold)

(* The ranked and cut list an entry point with that threshold selects from *)
(* the discovered postings, the ledger and the daily limit of this state.  *)
SelectedBy(threshold) ==
  SortAndLimit(FilterJobs(discovered, threshold),
               maxPerDay - CalculateApplicationsToday(ledgerReadable, ledgerExists, ledger))

(* C39: from the same discovered postings, ledger and daily limit, the     *)
(* filter of main() (priority_score > 0.1) and the filter of               *)
(* run_daily_automation (priority_score > 0.6) select the same ranked and  *)
(* cut list, and it is the list the run hands on.                          *)
C39_SameSelection ==
  /\ pc \in {"ctl_analyze", "m_analyze", "ctl_browser", "m_browser"} =>
        SelectedBy(CtlPriorityThreshold) = SelectedBy(MainPriorityThreshold)
  /\ ScoringDone =>
        (qualified = SelectedBy(CtlPriorityThreshold) /\ qualified = SelectedBy(MainPriorityThreshold))

(* run_daily_automation selected a posting whose similarity is exactly the *)
(* threshold and whose priority is the lowest a selected posting can have. *)
C39_Witness ==
  /\ ScoringDone /\ entry = "controller"
  /\ \E a \in DOMAIN qualified :
        qualified[a].similarity_score = similarity_threshold /\ qualified[a].priority_score = 650
  /\ Len(qualified) < Len(discovered)

(* C40: once a KeyboardInterrupt has stopped main(), every job whose       *)
(* apply_to_job call had returned by then has exactly one ledger record.   *)
C40_InterruptKeepsRecords ==
  (entry = "main" /\ sigAt # NoSignal)
  => \A k \in DOMAIN outcome : RecordsFor(k) = 1

====
